---- MODULE Spec2Model ----
(***************************************************************************)
(* Model of ops.manifests: the Manifests resolver/reconciler               *)
(* (src/ops/manifests/manifest.py), its manipulations                      *)
(* (src/ops/manifests/manipulations.py) and the Collector                  *)
(* (src/ops/manifests/collector.py), run against a cluster that other      *)
(* actors change as well.                                                  *)
(*                                                                         *)
(* Encoding of Python values:                                              *)
(*   None                 the string "None" (never a legal name)           *)
(*   a label value        a sequence of string atoms (so that the          *)
(*                        f-string of the version label is a real          *)
(*                        concatenation); an absent label is <<>>          *)
(*   an error message     a sequence of one-character strings              *)
(*   a frozenset          a set of resource records holding at most one    *)
(*                        record per identity (HashableResource equality)  *)
(***************************************************************************)
EXTENDS Integers, Sequences, FiniteSets, TLC

VARIABLES
    files,       \* what is below base_path of each manifest, as _safe_load holds it
    cluster,     \* the live resources: a set of resource records, one per identity
    config,      \* Manifests.config of each manifest: [release |-> ...]
    manips,      \* Manifests.manipulations of each manifest (set by __init__)
    op,          \* the call in progress, with its arguments, or Idle
    before,      \* the cluster when that call began
    raised,      \* the exception the call left with, or NoError
    calls,       \* the client calls it issued, in order
    ret          \* what it returned

vars == <<files, cluster, config, manips, op, before, raised, calls, ret>>

None == "None"

----------------------------------------------------------------------------
(* Bounds of the model *)

\* how many resources a caller hands to delete_resources at once
MaxBatch == 3

\* how many resources a caller hands to apply_resources at once
MaxApply == 3

\* how many release directories a charm ships
MaxReleases == 3

\* how deep the List documents of a file are nested
MaxDepth == 2

\* how many tolerations a declared pod specification has
MaxTolerations == 2

----------------------------------------------------------------------------
(* Sequences and sets *)

Range(s) == {s[i] : i \in DOMAIN s}

RECURSIVE Flatten(_)
Flatten(ss) == IF ss = <<>> THEN <<>> ELSE Head(ss) \o Flatten(Tail(ss))

\* every ordering of the elements of a set (iteration order of a frozenset)
Orderings(S) ==
    {s \in [1..Cardinality(S) -> S] : \A i, j \in 1..Cardinality(S) : i # j => s[i] # s[j]}

----------------------------------------------------------------------------
(* literals and identities *)

APP_LABEL == "juju.io/application"
MANIFEST_LABEL == "juju.io/manifest"
VERSION_LABEL == "juju.io/manifest-version"
OTHER_LABEL == "pre-existing"

LabelKeys == {APP_LABEL, MANIFEST_LABEL, VERSION_LABEL, OTHER_LABEL}

\* the value of labels.get(key) for a key that is not there
NoLabel == <<>>

NoLabels == [k \in LabelKeys |-> NoLabel]

\* model.app.name of the charm, and the application of another charm
AppName == "unit-testing"
OtherApp == "other-app"

ManifestNames == {"alpha", "beta"}

\* d.get(key) of a mapping: a record of its keys
Get(d, key) == IF key \in DOMAIN d THEN d[key] ELSE None

\* isinstance(rsc, Mapping): a value that is not a mapping is held as a
\* record with the one field scalar
IsMapping(rsc) == "scalar" \notin DOMAIN rsc

\* not value, for a string or None
Falsy(value) == value = None \/ value = ""

\* HashableResource.labels
labels(obj) == obj.labels

\* HashableResource.__uniq
uniq(obj) == <<obj.kind, obj.namespace, obj.name>>

\* HashableResource.__eq__
Eq(a, b) == uniq(a) = uniq(b)

\* membership in a set or dict keyed by HashableResource
In(obj, S) == \E x \in S : Eq(x, obj)

Rsc(kind, namespace, name) ==
    [apiVersion |-> "v1", kind |-> kind, metadata |-> TRUE, namespace |-> namespace,
     name |-> name, labels |-> NoLabels, conds |-> <<>>]

\* type(obj.resource): the resource class, one per kind
TypeOf(obj) == obj.kind

----------------------------------------------------------------------------
(* The declaration files below base_path of each manifest *)

DepA == Rsc("Deployment", "ns1", "a")
DepC == Rsc("Deployment", "ns1", "c")
CmB == Rsc("ConfigMap", "ns2", "b")

\* the directories of the charms the drift analysis is about: version is the
\* stripped content of the file base_path/version ("" when there is no such
\* file), manifests the documents of manifests/<release>/<file>
BasePaths ==
    [alpha |-> [version |-> "v1",
                manifests |-> [v1 |-> [f1 |-> <<DepA, DepC>>, f2 |-> <<CmB>>],
                               v2 |-> [f1 |-> <<DepA>>]]],
     beta |-> [version |-> "",
               manifests |-> [v1 |-> [f1 |-> <<CmB>>]]]]

\* manifest_path.glob("*/*"): the files of each release directory
ReleaseFiles(m) == files[m].manifests

VersionFile(m) == files[m].version

FILE_TYPES == <<"yaml", "yml">>

\* the suffix of each file name
FileType == [f1 |-> "yaml", f2 |-> "yml", f3 |-> "yaml", notes |-> "txt"]

\* the sort key of each file path of a release directory
PathOrder == [f1 |-> 1, f2 |-> 2, f3 |-> 3, notes |-> 4]

\* release_path.glob("*.yaml") and release_path.glob("*.yml")
Globbed(dir) == {f \in DOMAIN dir : FileType[f] \in Range(FILE_TYPES)}

\* what a charm may put in config["release"]
ConfigReleases(m) == IF m = "alpha" THEN {"", "v2"} ELSE {""}

\* the characters of each name the model uses
Chars ==
    [v1 |-> <<"v", "1">>, v2 |-> <<"v", "2">>,
     alpha |-> <<"a", "l", "p", "h", "a">>, beta |-> <<"b", "e", "t", "a">>,
     Deployment |-> <<"D", "e", "p", "l", "o", "y", "m", "e", "n", "t">>,
     ConfigMap |-> <<"C", "o", "n", "f", "i", "g", "M", "a", "p">>,
     Namespace |-> <<"N", "a", "m", "e", "s", "p", "a", "c", "e">>,
     Pod |-> <<"P", "o", "d">>, List |-> <<"L", "i", "s", "t">>,
     PodList |-> <<"P", "o", "d", "L", "i", "s", "t">>,
     ns1 |-> <<"n", "s", "1">>, ns2 |-> <<"n", "s", "2">>,
     a |-> <<"a">>, b |-> <<"b">>, c |-> <<"c">>, w |-> <<"w">>, s |-> <<"s">>,
     Ready |-> <<"R", "e", "a", "d", "y">>, Ignored |-> <<"I", "g", "n", "o", "r", "e", "d">>]
    @@ ("v1.1.2" :> <<"v", "1", ".", "1", ".", "2">>)
    @@ ("v1.1.9" :> <<"v", "1", ".", "1", ".", "9">>)
    @@ ("v1.1.10" :> <<"v", "1", ".", "1", ".", "1", "0">>)
    @@ ("v10" :> <<"v", "1", "0">>)
    @@ [correct |-> <<"c", "o", "r", "r", "e", "c", "t">>,
        extra |-> <<"e", "x", "t", "r", "a">>,
        missing |-> <<"m", "i", "s", "s", "i", "n", "g">>,
        conflicting |-> <<"c", "o", "n", "f", "l", "i", "c", "t", "i", "n", "g">>,
        deployment |-> <<"d", "e", "p", "l", "o", "y", "m", "e", "n", "t">>,
        DEPLOYMENT |-> <<"D", "E", "P", "L", "O", "Y", "M", "E", "N", "T">>,
        Service |-> <<"S", "e", "r", "v", "i", "c", "e">>,
        BETA |-> <<"B", "E", "T", "A">>, Alpha |-> <<"A", "l", "p", "h", "a">>, gamma |-> <<"g", "a", "m", "m", "a">>]

----------------------------------------------------------------------------
(* Release discovery *)

Digits == <<"0", "1", "2", "3", "4", "5", "6", "7", "8", "9">>

IsDigit(c) == c \in Range(Digits)

DigitValue(c) == (CHOOSE i \in DOMAIN Digits : Digits[i] = c) - 1

RECURSIVE DigitRun(_)
DigitRun(s) ==
    IF s = <<>> \/ ~IsDigit(Head(s)) THEN <<>> ELSE <<Head(s)>> \o DigitRun(Tail(s))

RECURSIVE IntOf(_)
IntOf(s) == IF s = <<>> THEN 0 ELSE IntOf(SubSeq(s, 1, Len(s) - 1)) * 10 + DigitValue(s[Len(s)])

\* convert leaving every part as text
convert_as_text(part) == [isint |-> FALSE, n |-> 0, s |-> part]

\* convert(part): int(part) if part.isdigit() else part
convert(part) ==
    IF part # <<>> /\ \A i \in DOMAIN part : IsDigit(part[i])
    THEN [isint |-> TRUE, n |-> IntOf(part), s |-> <<>>]
    ELSE [isint |-> FALSE, n |-> 0, s |-> part]

\* _VERSION_SPLIT.split(version): text, digits, text, ..., text
RECURSIVE VersionSplit(_, _, _)
VersionSplit(s, cur, acc) ==
    IF s = <<>> THEN Append(acc, cur)
    ELSE IF IsDigit(Head(s))
    THEN LET run == DigitRun(s)
         IN  VersionSplit(SubSeq(s, Len(run) + 1, Len(s)), <<>>, acc \o <<cur, run>>)
    ELSE VersionSplit(Tail(s), Append(cur, Head(s)), acc)

by_version(version) ==
    LET parts == VersionSplit(version, <<>>, <<>>)
    IN  [i \in DOMAIN parts |-> convert(parts[i])]

\* the order of str: by code point
CharOrder ==
    <<" ", "(", ")", "-", ".", "/", "0", "1", "2", "3", "4", "5", "6", "7", "8", "9", ":",
      "A", "B", "C", "D", "E", "F", "G", "H", "I", "J", "K", "L", "M",
      "N", "O", "P", "Q", "R", "S", "T", "U", "V", "W", "X", "Y", "Z",
      "a", "b", "c", "d", "e", "f", "g", "h", "i", "j", "k", "l", "m",
      "n", "o", "p", "q", "r", "s", "t", "u", "v", "w", "x", "y", "z">>

CharRank(c) == CHOOSE i \in DOMAIN CharOrder : CharOrder[i] = c

RECURSIVE StrLess(_, _)
StrLess(a, b) ==
    IF b = <<>> THEN FALSE
    ELSE IF a = <<>> THEN TRUE
    ELSE IF Head(a) = Head(b) THEN StrLess(Tail(a), Tail(b))
    ELSE CharRank(Head(a)) < CharRank(Head(b))

PartLess(p, q) == IF p.isint THEN p.n < q.n ELSE StrLess(p.s, q.s)

\* list comparison of two version keys
RECURSIVE KeyLess(_, _)
KeyLess(a, b) ==
    IF b = <<>> THEN FALSE
    ELSE IF a = <<>> THEN TRUE
    ELSE IF Head(a) = Head(b) THEN KeyLess(Tail(a), Tail(b))
    ELSE PartLess(Head(a), Head(b))

\* Manifests.releases: the release directories, highest version first
releases(m) ==
    LET names == {r \in DOMAIN ReleaseFiles(m) : Globbed(ReleaseFiles(m)[r]) # {}}
        key(r) == by_version(Chars[r])
    IN  CHOOSE s \in Orderings(names) :
            \A i, j \in DOMAIN s : i < j => ~KeyLess(key(s[i]), key(s[j]))

\* Manifests.default_release
default_release(m) == VersionFile(m)

\* Manifests.latest_release: self.releases[0], None standing for what is
\* not returned when the list is empty
latest_release(m) == IF releases(m) = <<>> THEN None ELSE releases(m)[1]

\* current_release preferring the version file to the configuration
current_release_default_first(m) ==
    IF ~Falsy(default_release(m)) THEN default_release(m)
    ELSE IF ~Falsy(Get(config[m], "release")) THEN config[m].release
    ELSE latest_release(m)

\* Manifests.current_release
current_release(m) ==
    IF ~Falsy(Get(config[m], "release")) THEN config[m].release
    ELSE IF ~Falsy(default_release(m)) THEN default_release(m)
    ELSE latest_release(m)

----------------------------------------------------------------------------
(* Manipulations *)

\* the classes of Addition: CreateNamespace, and a subclass of a charm whose
\* instances can be iterated
Additions == {"CreateNamespace", "Addition"}
Patches == {"ManifestLabel", "ConfigRegistry"}
Subtractions == {"SubtractEq"}

\* CreateNamespace.__call__
CreateNamespace(manipulate) == Rsc("Namespace", None, manipulate.namespace)

\* ManifestLabel giving obj a new label map of its three labels
ManifestLabel_replacing(m, obj) ==
    IF obj.metadata
    THEN [obj EXCEPT !.labels =
             [k \in LabelKeys |->
                 CASE k = APP_LABEL -> <<AppName>>
                   [] k = MANIFEST_LABEL -> <<m>>
                   [] k = VERSION_LABEL -> <<m, "-", current_release(m)>>
                   [] OTHER -> NoLabel]]
    ELSE obj

\* ManifestLabel.__call__
ManifestLabel(m, obj) ==
    IF obj.metadata
    THEN LET version == current_release(m)
             update == [k \in {APP_LABEL, MANIFEST_LABEL, VERSION_LABEL} |->
                          CASE k = APP_LABEL -> <<AppName>>
                            [] k = MANIFEST_LABEL -> <<m>>
                            [] k = VERSION_LABEL -> <<m>> \o <<"-">> \o <<version>>]
         IN  [obj EXCEPT !.labels =
                 [k \in LabelKeys |-> IF k \in DOMAIN update THEN update[k] ELSE @[k]]]
    ELSE obj

\* the kinds whose containers ConfigRegistry looks at
PodSpecKinds ==
    {"Pod", "DaemonSet", "Deployment", "Job", "ReplicaSet", "ReplicationController",
     "StatefulSet", "CronJob"}

\* not self.manifests.config.get("image-registry")
NoRegistry(m) ==
    "image-registry" \notin DOMAIN config[m] \/ config[m]["image-registry"] = <<>>

\* the containers and initContainers of obj that have an image: the indexes
\* into obj.images; an image is the sequence of its parts between "/"
containers(obj) ==
    IF obj.kind \in PodSpecKinds /\ "images" \in DOMAIN obj
    THEN {i \in DOMAIN obj.images : obj.images[i] # <<>>}
    ELSE {}

\* ConfigRegistry putting the registry before the whole image
ConfigRegistry_prefixing(m, obj) ==
    IF NoRegistry(m) \/ containers(obj) = {} THEN obj
    ELSE [obj EXCEPT !.images =
             [i \in DOMAIN @ |->
                 IF i \in containers(obj) THEN config[m]["image-registry"] \o @[i]
                 ELSE @[i]]]

\* ConfigRegistry.__call__; registry: the parts of config["image-registry"]
\* between "/"
ConfigRegistry(m, obj) ==
    IF NoRegistry(m) \/ containers(obj) = {} THEN obj
    ELSE [obj EXCEPT !.images =
             [i \in DOMAIN @ |->
                 IF i \in containers(obj) THEN config[m]["image-registry"] \o Tail(@[i])
                 ELSE @[i]]]

\* the fields of lightkube's Toleration, in the order of the dataclass
TolerationFields == <<"effect", "key", "operator", "tolerationSeconds", "value">>

\* Toleration.to_dict(): the fields that are not None, in order, each with
\* its value
to_dict(t) ==
    LET set == SelectSeq(TolerationFields, LAMBDA f : t[f] # None)
    IN  [i \in DOMAIN set |-> <<set[i], t[set[i]]>>]

\* tuple(t.to_dict().values())
values_key(t) == [i \in DOMAIN to_dict(t) |-> to_dict(t)[i][2]]

\* _unique: the items of collection whose key no earlier item has
RECURSIVE _unique(_, _)
_unique(collection, seen) ==
    IF collection = <<>> THEN <<>>
    ELSE IF values_key(Head(collection)) \in seen THEN _unique(Tail(collection), seen)
    ELSE <<Head(collection)>>
             \o _unique(Tail(collection), seen \cup {values_key(Head(collection))})

\* the adjusters a charm may pass: one that returns the list, one that drops
\* the first toleration, changes the key of the next and repeats it, one
\* that adds two tolerations
adjust(adjuster, tolerations) ==
    CASE adjuster = "keep" -> tolerations
      [] adjuster = "retarget" ->
            IF Len(tolerations) < 2 THEN <<>>
            ELSE LET rest == [Tail(tolerations) EXCEPT ![1].key = "else"]
                 IN  Append(rest, rest[1])
      [] adjuster = "extend" ->
            tolerations \o <<[effect |-> None, key |-> "a", operator |-> None,
                              tolerationSeconds |-> None, value |-> "Exists"],
                            [effect |-> None, key |-> "a", operator |-> "Exists",
                              tolerationSeconds |-> None, value |-> None]>>

\* update_tolerations; a resource without a pod specification has no field
\* tolerations
update_tolerations(obj, adjuster) ==
    IF obj.kind \in {"Pod", "DaemonSet", "Deployment", "StatefulSet"}
           /\ "tolerations" \in DOMAIN obj
    THEN [obj EXCEPT !.tolerations = _unique(adjust(adjuster, @), {})]
    ELSE obj

\* SubtractEq comparing the resources field by field
SubtractEq_by_content(manipulate, obj) == manipulate.to_compare = obj

\* SubtractEq.__call__
SubtractEq(manipulate, obj) == Eq(manipulate.to_compare, obj)

\* a Subtraction called with obj
Subtract(manipulate, obj) ==
    IF manipulate.type = "SubtractEq" THEN SubtractEq(manipulate, obj) ELSE FALSE

\* a Patch called with obj
Patch(m, manipulate, obj) ==
    IF manipulate.type = "ManifestLabel" THEN ManifestLabel(m, obj)
    ELSE IF manipulate.type = "ConfigRegistry" THEN ConfigRegistry(m, obj)
    ELSE obj

\* the manipulation lists a charm may build a manifest with; the first is
\* the default of Manifests.__init__ (manipulations=None)
ManipulationLists(m) ==
    IF m = "alpha"
    THEN {<<[type |-> "ManifestLabel"]>>,
          <<>>,
          <<[type |-> "SubtractEq", to_compare |-> DepC], [type |-> "ManifestLabel"]>>}
    ELSE {<<[type |-> "ManifestLabel"]>>}

----------------------------------------------------------------------------
(* Manifests.resources *)

\* whether iter(manipulate) succeeds: no class of the library defines
\* __iter__
Iterable(manipulate) == "yields" \in DOMAIN manipulate

\* for add in manipulate, and filter(None, ...) of what it gives; a None
\* among the resources is held as the scalar None
Iterated(manipulate) ==
    IF Iterable(manipulate) THEN SelectSeq(manipulate.yields, IsMapping)
    ELSE <<>>

RECURSIVE additions(_)
additions(ms) ==
    IF ms = <<>> THEN <<>>
    ELSE IF Head(ms).type \in Additions THEN Iterated(Head(ms)) \o additions(Tail(ms))
    ELSE additions(Tail(ms))

\* the files of the release directory, sorted
ymls(m, release) ==
    CHOOSE s \in Orderings(IF release \in DOMAIN ReleaseFiles(m)
                           THEN Globbed(ReleaseFiles(m)[release]) ELSE {}) :
        \A i, j \in DOMAIN s : i < j => PathOrder[s[i]] < PathOrder[s[j]]

\* codecs.from_dict(dict(item)): the resource of a document; the model
\* holds a document by the fields of its resource
from_dict(item) == item

\* the document _safe_load holds, were the resource made of it the document
\* itself
held_shared(item, rsc) == rsc

\* the document _safe_load holds once the resource rsc made of it was
\* patched: from_dict builds the resource from a copy
held(item, rsc) == item

\* s.endswith(suffix)
EndsWith(s, suffix) ==
    Len(s) >= Len(suffix) /\ SubSeq(s, Len(s) - Len(suffix) + 1, Len(s)) = suffix

\* whether _flatten ignores rsc, and with which warning
Ignoring(rsc) ==
    IF ~IsMapping(rsc) THEN "non-dictionary"
    ELSE IF Falsy(Get(rsc, "kind")) \/ Falsy(Get(rsc, "apiVersion")) THEN "non-kubernetes"
    ELSE None

\* rsc.get("items", [])
ItemsOf(rsc) == IF "items" \in DOMAIN rsc THEN rsc.items ELSE <<>>

\* _flatten, taking of the items of a List those that are resources
\* themselves
RECURSIVE _flatten_one_level(_)
_flatten_one_level(raw_resources) ==
    IF raw_resources = <<>> THEN <<>>
    ELSE LET rsc == Head(raw_resources)
             kept(doc) == Ignoring(doc) = None /\ ~EndsWith(Chars[doc.kind], Chars["List"])
         IN  (IF Ignoring(rsc) # None THEN <<>>
              ELSE IF EndsWith(Chars[rsc.kind], Chars["List"])
              THEN SelectSeq(ItemsOf(rsc), kept)
              ELSE <<rsc>>) \o _flatten_one_level(Tail(raw_resources))

\* _flatten of _safe_load: the resources of the documents, in order
RECURSIVE _flatten(_)
_flatten(raw_resources) ==
    IF raw_resources = <<>> THEN <<>>
    ELSE LET rsc == Head(raw_resources)
         IN  (IF Ignoring(rsc) # None THEN <<>>
              ELSE IF EndsWith(Chars[rsc.kind], Chars["List"]) THEN _flatten(ItemsOf(rsc))
              ELSE <<rsc>>) \o _flatten(Tail(raw_resources))

\* what _flatten logs: one warning for each document it ignores
RECURSIVE warnings(_)
warnings(raw_resources) ==
    IF raw_resources = <<>> THEN <<>>
    ELSE LET rsc == Head(raw_resources)
         IN  (IF Ignoring(rsc) # None THEN <<<<"warning", Ignoring(rsc), rsc>>>>
              ELSE IF EndsWith(Chars[rsc.kind], Chars["List"]) THEN warnings(ItemsOf(rsc))
              ELSE <<>>) \o warnings(Tail(raw_resources))

\* Manifests._safe_load of the file manifests/<release>/<path>
_safe_load(m, release, path) == _flatten(ReleaseFiles(m)[release][path])

\* Manifests._resource_from_yaml
_resource_from_yaml(m, release, path) ==
    LET items == _safe_load(m, release, path)
    IN  [i \in DOMAIN items |-> from_dict(items[i])]

\* the resources of the files at paths, in order
statics_of(m, release, paths) ==
    Flatten([i \in DOMAIN paths |-> _resource_from_yaml(m, release, paths[i])])

loaded_statics(m, release) == statics_of(m, release, ymls(m, release))

RECURSIVE without(_, _)
without(statics, manipulate) ==
    IF statics = <<>> THEN <<>>
    ELSE IF Subtract(manipulate, Head(statics)) THEN without(Tail(statics), manipulate)
    ELSE <<Head(statics)>> \o without(Tail(statics), manipulate)

RECURSIVE subtracted(_, _)
subtracted(statics, ms) ==
    IF ms = <<>> THEN statics
    ELSE IF Head(ms).type \in Subtractions
    THEN subtracted(without(statics, Head(ms)), Tail(ms))
    ELSE subtracted(statics, Tail(ms))

RECURSIVE patched(_, _, _)
patched(m, rsc, ms) ==
    IF ms = <<>> THEN rsc
    ELSE IF Head(ms).type \in Patches
    THEN patched(m, Patch(m, Head(ms), rsc), Tail(ms))
    ELSE patched(m, rsc, Tail(ms))

\* an ordered dictionary that keeps the last key of each identity
OrderedKeys_keeping_last(objs, seen) ==
    LET kept == SelectSeq([i \in DOMAIN objs |-> i],
                          LAMBDA i : \A j \in (i + 1)..Len(objs) : ~Eq(objs[j], objs[i]))
    IN  [k \in DOMAIN kept |-> objs[kept[k]]]

\* OrderedDict((HashableResource(obj), None) for obj in ...).keys()
RECURSIVE OrderedKeys(_, _)
OrderedKeys(objs, seen) ==
    IF objs = <<>> THEN <<>>
    ELSE IF In(Head(objs), seen) THEN OrderedKeys(Tail(objs), seen)
    ELSE <<Head(objs)>> \o OrderedKeys(Tail(objs), seen \cup {Head(objs)})

\* every resource, with the patches applied
patch_all(m, all_resources) ==
    [i \in DOMAIN all_resources |-> patched(m, all_resources[i], manips[m])]

resources(m) ==
    OrderedKeys(patch_all(m, additions(manips[m])
                             \o subtracted(loaded_statics(m, current_release(m)), manips[m])),
                {})

\* the documents _safe_load holds for a file after resources was evaluated
RECURSIVE declared_after(_, _)
declared_after(m, docs) ==
    [i \in DOMAIN docs |->
        IF Ignoring(docs[i]) # None THEN docs[i]
        ELSE IF EndsWith(Chars[docs[i].kind], Chars["List"])
        THEN [k \in DOMAIN docs[i] |->
                 IF k = "items" THEN declared_after(m, docs[i].items) ELSE docs[i][k]]
        ELSE IF subtracted(<<from_dict(docs[i])>>, manips[m]) = <<>> THEN docs[i]
        ELSE held(docs[i], patched(m, from_dict(docs[i]), manips[m]))]

\* base_path after resources was evaluated at release
loaded_after(m, release) ==
    IF release \notin DOMAIN ReleaseFiles(m) THEN files
    ELSE [files EXCEPT ![m].manifests[release] =
             [f \in DOMAIN @ |-> IF f \in Globbed(@) THEN declared_after(m, @[f]) ELSE @[f]]]

----------------------------------------------------------------------------
(* Errors *)

NoError == [type |-> "None"]

TypeError == [type |-> "TypeError"]
IndexError == [type |-> "IndexError"]
ValueError == [type |-> "ValueError"]

\* what evaluating current_release raises: self.releases[0] of no release
current_release_raised(m) ==
    IF Falsy(Get(config[m], "release")) /\ Falsy(default_release(m)) /\ releases(m) = <<>>
    THEN IndexError ELSE NoError

\* whether ConfigRegistry fails on obj: an image without "/" does not
\* unpack into two parts
unpack_fails(m, obj) ==
    /\ ~NoRegistry(m)
    /\ \E i \in containers(obj) : Len(obj.images[i]) < 2

\* what the patches of resources raise
patches_raised(m, all_resources) ==
    IF /\ \E i \in DOMAIN manips[m] : manips[m][i].type = "ConfigRegistry"
       /\ \E i \in DOMAIN all_resources : unpack_fails(m, all_resources[i])
    THEN ValueError ELSE NoError

\* what evaluating Manifests.resources raises
resources_raised(m) ==
    IF \E i \in DOMAIN manips[m] :
           manips[m][i].type \in Additions /\ ~Iterable(manips[m][i])
    THEN TypeError
    ELSE IF current_release_raised(m) # NoError THEN current_release_raised(m)
    ELSE patches_raised(m, additions(manips[m])
                               \o subtracted(loaded_statics(m, current_release(m)), manips[m]))

\* the property Manifests.resources, as a caller sees it
resolved(m) ==
    IF resources_raised(m) # NoError
    THEN [raised |-> resources_raised(m), value |-> <<>>, files |-> files]
    ELSE [raised |-> NoError, value |-> resources(m),
          files |-> loaded_after(m, current_release(m))]

UpperCase == <<"A", "B", "C", "D", "E", "F", "G", "H", "I", "J", "K", "L", "M",
               "N", "O", "P", "Q", "R", "S", "T", "U", "V", "W", "X", "Y", "Z">>
LowerCase == <<"a", "b", "c", "d", "e", "f", "g", "h", "i", "j", "k", "l", "m",
               "n", "o", "p", "q", "r", "s", "t", "u", "v", "w", "x", "y", "z">>

\* str.lower
lower(s) ==
    [i \in DOMAIN s |->
        IF \E j \in DOMAIN UpperCase : UpperCase[j] = s[i]
        THEN LowerCase[CHOOSE j \in DOMAIN UpperCase : UpperCase[j] = s[i]]
        ELSE s[i]]

\* sub in s
Contains(sub, s) ==
    \E i \in 0..(Len(s) - Len(sub)) : SubSeq(s, i + 1, i + Len(sub)) = sub

NOT_FOUND == <<"n", "o", "t", " ", "f", "o", "u", "n", "d">>
UNAUTHORIZED == <<"(", "u", "n", "a", "u", "t", "h", "o", "r", "i", "z", "e", "d", ")">>

\* an ApiError with a status message
ApiError(message) ==
    [type |-> "ApiError", has_status |-> TRUE, has_message |-> TRUE,
     message |-> message, text |-> <<"e", "r", "r">>]

\* an ApiError whose status has no message; str(ex) is text
ApiErrorNoMessage(text) ==
    [type |-> "ApiError", has_status |-> TRUE, has_message |-> FALSE,
     message |-> <<>>, text |-> text]

\* an httpx.HTTPError: it has no status attribute; str(ex) is text
HTTPError(text) ==
    [type |-> "HTTPError", has_status |-> FALSE, has_message |-> FALSE,
     message |-> <<>>, text |-> text]

\* the answer of the API server for a resource that is not there
NotFound == ApiError(<<"N", "o", "t", " ", "F", "o", "u", "n", "d">>)

Unauthorized == ApiError(<<"(", "U", "n", "a", "u", "t", "h", "o", "r", "i", "z", "e", "d", ")">>)

\* the errors a client call may fail with
ClientErrors ==
    {NotFound,
     Unauthorized,
     ApiError(<<"u", "n", "a", "u", "t", "h", "o", "r", "i", "z", "e", "d">>),
     ApiErrorNoMessage(<<"4", "0", "4", " ", "n", "o", "t", " ", "f", "o", "u", "n", "d">>),
     HTTPError(<<"5", "0", "2">>)}

ManifestClientError(cause) == [type |-> "ManifestClientError", cause |-> cause]

----------------------------------------------------------------------------
(* The cluster behind the lightkube client *)

\* a client call; opts: the optional arguments it was given
Call(verb, kind, name, namespace, opts) ==
    [verb |-> verb, kind |-> kind, name |-> name, namespace |-> namespace,
     opts |-> opts]

\* the live resource with the identity of obj, as a set of at most one
Live(cl, kind, name, namespace) == {o \in cl : uniq(o) = <<kind, namespace, name>>}

\* client.list(kind, namespace=..., labels={APP_LABEL: app, MANIFEST_LABEL: m})
ClientList(cl, kind, namespace, m) ==
    {o \in cl : /\ o.kind = kind
                /\ o.namespace = namespace
                /\ o.labels[APP_LABEL] = <<AppName>>
                /\ o.labels[MANIFEST_LABEL] = <<m>>}

\* client.apply that creates the resource and leaves a live one as it is
ClientApply_creating(cl, rsc) ==
    IF Live(cl, rsc.kind, rsc.name, rsc.namespace) = {} THEN cl \cup {rsc} ELSE cl

\* client.apply(rsc, force=True): create the resource, or take over the
\* fields the applied configuration sets and leave the others
ClientApply(cl, rsc) ==
    LET old == Live(cl, rsc.kind, rsc.name, rsc.namespace)
        new == IF old = {} THEN rsc
               ELSE LET o == CHOOSE x \in old : TRUE
                    IN  [o EXCEPT !.labels =
                            [k \in LabelKeys |->
                                IF rsc.labels[k] # NoLabel THEN rsc.labels[k] ELSE @[k]]]
    IN  (cl \ old) \cup {new}

\* client.delete(kind, name, namespace=...)
ClientDelete(cl, kind, name, namespace) == cl \ Live(cl, kind, name, namespace)

----------------------------------------------------------------------------
(* Manifests: what is installed, labelled and conflicting *)

Min(S) == CHOOSE x \in S : \A y \in S : x <= y

\* what the get of obj returns, as a set of at most one
get_one(m, cl, obj, getFail) ==
    IF <<m, uniq(obj)>> \in getFail THEN {}
    ELSE Live(cl, TypeOf(obj), obj.name, obj.namespace)

\* result[HashableResource(next_rsc)] = None
add_result(obj, found, rest) ==
    [value |-> found \cup {o \in rest.value : ~In(o, found)},
     calls |-> <<Call("get", TypeOf(obj), obj.name, obj.namespace, {})>> \o rest.calls]

\* Manifests.installed_resources; getFail: the gets that fail although the
\* resource is there
RECURSIVE installed_from(_, _, _, _)
installed_from(m, cl, objs, getFail) ==
    IF objs = <<>> THEN [value |-> {}, calls |-> <<>>]
    ELSE add_result(Head(objs), get_one(m, cl, Head(objs), getFail),
             installed_from(m, cl, Tail(objs), getFail))

\* Manifests.installed_resources, giving up at the first get that fails
installed_resources_until_failure(m, cl, getFail) ==
    LET objs == resources(m)
        failing == {i \in DOMAIN objs : get_one(m, cl, objs[i], getFail) = {}}
        last == IF failing = {} THEN Len(objs) ELSE Min(failing)
    IN  installed_from(m, cl, SubSeq(objs, 1, last), getFail)

installed_resources(m, cl, getFail) == installed_from(m, cl, resources(m), getFail)

\* the installed resources that have conditions
with_conditions(installed) ==
    [value |-> {o \in installed.value : o.conds # <<>>}, calls |-> installed.calls]

\* Manifests.status
status(m, cl, getFail) == with_conditions(installed_resources(m, cl, getFail))

\* is_ready taking every status but "False" for ready
is_ready_unless_false(m, obj, cond) == cond.status # "False"

\* Manifests.is_ready
is_ready(m, obj, cond) == cond.status = "True"

\* the manifests whose class overrides is_ready as the manifest of the
\* tests does
Overriding == {"alpha"}

\* self.manifests[name].is_ready(obj, cond): True, False or None, by name
is_ready_of(m, obj, cond) ==
    IF m \in Overriding /\ obj.kind = "Deployment" /\ cond.type = "Ignored" THEN "None"
    ELSE IF is_ready(m, obj, cond) THEN "True"
    ELSE "False"

\* the expected resource with the identity of obj
match(expected, obj) == expected[Min({i \in DOMAIN expected : Eq(expected[i], obj)})]

\* whether obj and its match differ in the application label
differ_by_app(obj, matched) == labels(obj)[APP_LABEL] # labels(matched)[APP_LABEL]

\* whether obj and its match differ in the application or the manifest label
differ(obj, matched) ==
    \/ labels(obj)[APP_LABEL] # labels(matched)[APP_LABEL]
    \/ labels(obj)[MANIFEST_LABEL] # labels(matched)[MANIFEST_LABEL]

\* the loop of conflicting_resources over installed, passing over an
\* installed resource that is not expected
conflicts_skipping_unexpected(expected, installed) ==
    [raised |-> NoError,
     value |-> {match(expected, obj) :
                    obj \in {o \in installed : In(o, Range(expected))
                                                /\ differ(o, match(expected, o))}}]

\* the loop of conflicting_resources over installed
conflicts(expected, installed) ==
    IF \E obj \in installed : ~In(obj, Range(expected))
    THEN [raised |-> ManifestClientError(NoError), value |-> {}]
    ELSE [raised |-> NoError,
          value |-> {match(expected, obj) :
                         obj \in {o \in installed : differ(o, match(expected, o))}}]

\* Manifests.conflicting_resources
conflicting_resources(m, installed) == conflicts(resources(m), installed)

\* the (namespace, kind) pairs labelled_resources lists
ns_kinds(expected) == {<<obj.namespace, TypeOf(obj)>> : obj \in Range(expected)}

\* the pairs in the order in which the set is iterated
in_order(iteration, pairs) == SelectSeq(iteration, LAMBDA p : p \in pairs)

\* the index of the last list call made; failing: those that fail
last_call(order, failing) == IF failing = {} THEN Len(order) ELSE Min(failing)

\* the list calls of labelled_resources over the pairs in order; failing: the
\* indexes of the calls that fail, err: what they fail with
listed(m, cl, order, failing, err) ==
    [raised |-> IF failing = {} THEN NoError ELSE err,
     calls |-> [i \in 1..last_call(order, failing) |->
                   Call("list", order[i][2], None, order[i][1], {"labels"})],
     value |-> IF failing = {}
               THEN UNION {ClientList(cl, order[i][2], order[i][1], m) : i \in DOMAIN order}
               ELSE {}]

\* labelled_resources over the pairs in order
list_pairs(m, cl, order, listFail, err) ==
    listed(m, cl, order, {i \in DOMAIN order : <<m, order[i]>> \in listFail}, err)

\* Manifests.labelled_resources; iteration: the order in which a set of pairs
\* is iterated, listFail: the list calls that fail, err: what they fail with
labelled_resources(m, cl, iteration, listFail, err) ==
    list_pairs(m, cl, in_order(iteration, ns_kinds(resources(m))), listFail, err)

----------------------------------------------------------------------------
(* Manifests: apply and delete *)

\* no client call of the batch fails for a reason outside the cluster state
NoFault == [at |-> 0, stage |-> "none", err |-> NoError]

\* Manifests.apply_resources, from the i-th resource on; fault: the apply
\* that fails
RECURSIVE apply_from(_, _, _, _)
apply_from(cl, batch, i, fault) ==
    IF i > Len(batch) THEN [cluster |-> cl, calls |-> <<>>, raised |-> NoError]
    ELSE LET rsc == batch[i]
             call == Call("apply", TypeOf(rsc), rsc.name, rsc.namespace, {"force"})
         IN  IF fault.at = i
             THEN [cluster |-> cl, calls |-> <<call>>,
                   raised |-> ManifestClientError(fault.err)]
             ELSE LET rest == apply_from(ClientApply(cl, rsc), batch, i + 1, fault)
                  IN  [rest EXCEPT !.calls = <<call>> \o @]

\* Manifests.apply_resources, undoing the batch when an apply fails
apply_resources_rolled_back(cl, batch, fault) ==
    LET done == apply_from(cl, batch, 1, fault)
    IN  IF done.raised.type # "None" THEN [done EXCEPT !.cluster = cl] ELSE done

apply_resources(cl, batch, fault) == apply_from(cl, batch, 1, fault)

\* Manifests.apply_manifests
apply_manifests(m, cl, fault) ==
    IF current_release_raised(m) # NoError
    THEN [cluster |-> cl, calls |-> <<>>, raised |-> current_release_raised(m)]
    ELSE IF resources_raised(m) # NoError
    THEN [cluster |-> cl, calls |-> <<>>, raised |-> resources_raised(m)]
    ELSE apply_resources(cl, resources(m), fault)

\* Manifests._delete, deleting by identity whatever ignore_labels is
_delete_by_identity(m, cl, obj, namespace, ignore_labels, fault) ==
    LET call == Call("delete", TypeOf(obj), obj.name, namespace, {})
        err == IF fault.stage = "delete" THEN fault.err
               ELSE IF Live(cl, TypeOf(obj), obj.name, namespace) = {} THEN NotFound
               ELSE NoError
    IN  [cluster |-> IF err.type = "None"
                     THEN ClientDelete(cl, TypeOf(obj), obj.name, namespace) ELSE cl,
         calls |-> <<call>>, raised |-> err]

\* Manifests._delete; fault: the client call that fails, if one does
_delete(m, cl, obj, namespace, ignore_labels, fault) ==
    IF ignore_labels
    THEN LET call == Call("delete", TypeOf(obj), obj.name, namespace, {})
             err == IF fault.stage = "delete" THEN fault.err
                    ELSE IF Live(cl, TypeOf(obj), obj.name, namespace) = {} THEN NotFound
                    ELSE NoError
         IN  [cluster |-> IF err.type = "None"
                          THEN ClientDelete(cl, TypeOf(obj), obj.name, namespace) ELSE cl,
              calls |-> <<call>>, raised |-> err]
    ELSE LET list == Call("list", TypeOf(obj), obj.name, namespace, {"labels", "fields"})
             items == {o \in ClientList(cl, TypeOf(obj), namespace, m) : o.name = obj.name}
         IN  IF fault.stage = "list"
             THEN [cluster |-> cl, calls |-> <<list>>, raised |-> fault.err]
             ELSE IF items = {}
             THEN [cluster |-> cl, calls |-> <<list>>, raised |-> NoError]
             ELSE LET item == CHOOSE o \in items : TRUE
                      call == Call("delete", TypeOf(item), item.name, namespace, {})
                  IN  IF fault.stage = "delete"
                      THEN [cluster |-> cl, calls |-> <<list, call>>, raised |-> fault.err]
                      ELSE [cluster |-> ClientDelete(cl, TypeOf(item), item.name, namespace),
                            calls |-> <<list, call>>, raised |-> NoError]

\* the message delete_resources classifies an error by
message_of(ex) == IF ex.has_status /\ ex.has_message THEN ex.message ELSE ex.text

\* whether delete_resources ignores the error ex, were the message not
\* lower-cased
ignorable_as_written(ex, ignore_not_found, ignore_unauthorized) ==
    LET msg == message_of(ex)
        not_found == ignore_not_found /\ Contains(NOT_FOUND, msg)
        unauthed == ignore_unauthorized /\ Contains(UNAUTHORIZED, msg)
    IN  not_found \/ unauthed

\* whether delete_resources ignores the error ex
ignorable(ex, ignore_not_found, ignore_unauthorized) ==
    LET msg == message_of(ex)
        not_found == ignore_not_found /\ Contains(NOT_FOUND, lower(msg))
        unauthed == ignore_unauthorized /\ Contains(UNAUTHORIZED, lower(msg))
    IN  not_found \/ unauthed

\* the namespace argument, or the namespace of obj when none is given
namespace_of_argument_first(obj, kw) ==
    IF kw.namespace # None THEN kw.namespace ELSE obj.namespace

\* the namespace delete_resources deletes obj in
namespace_of(obj, kw) == IF obj.namespace # None THEN obj.namespace ELSE kw.namespace

\* the outcome of the deletes from the i-th on; one: the outcome of the
\* i-th, rest: that of those after it
deleted_at(i, one, rest, level) ==
    [rest EXCEPT !.calls = one.calls \o @,
                 !.log = (IF level = "info" THEN <<<<"info", "Deleting", i>>>>
                          ELSE <<<<"info", "Deleting", i>>, <<"warning", "Ignored", i>>>>) \o @]

failed_at(i, one) ==
    [cluster |-> one.cluster, calls |-> one.calls,
     raised |-> ManifestClientError(one.raised),
     log |-> <<<<"info", "Deleting", i>>, <<"exception", "Failed", i>>>>]

\* Manifests.delete_resources, from the i-th resource on; kw: the keyword
\* arguments. log: what it logs, <<level, text, index of the resource>>
RECURSIVE delete_from(_, _, _, _, _, _)
RECURSIVE delete_next(_, _, _, _, _, _)
delete_next(m, batch, i, kw, fault, one) ==
    IF one.raised.type = "None"
    THEN deleted_at(i, one, delete_from(m, one.cluster, batch, i + 1, kw, fault), "info")
    ELSE IF ignorable(one.raised, kw.ignore_not_found, kw.ignore_unauthorized)
    THEN deleted_at(i, one, delete_from(m, one.cluster, batch, i + 1, kw, fault), "warning")
    ELSE failed_at(i, one)

delete_from(m, cl, batch, i, kw, fault) ==
    IF i > Len(batch)
    THEN [cluster |-> cl, calls |-> <<>>, raised |-> NoError, log |-> <<>>]
    ELSE delete_next(m, batch, i, kw, fault,
                     _delete(m, cl, batch[i], namespace_of(batch[i], kw), kw.ignore_labels,
                             IF fault.at = i THEN fault ELSE NoFault))

delete_resources(m, cl, batch, kw, fault) == delete_from(m, cl, batch, 1, kw, fault)

\* the keyword arguments of delete_resources when none is given
DefaultKw ==
    [namespace |-> None, ignore_not_found |-> FALSE, ignore_unauthorized |-> FALSE,
     ignore_labels |-> FALSE]

\* a frozenset as *args: its elements in iteration order (rank: the order of
\* the identities)
by_rank(S, ids) == [i \in DOMAIN ids |-> CHOOSE o \in S : uniq(o) = ids[i]]

Iterate(S, rank) == by_rank(S, SelectSeq(rank, LAMBDA u : \E o \in S : uniq(o) = u))

\* delete_resources(*installed_resources, **kwargs)
delete_labelled(m, cl, installed, rank, kw, fault) ==
    IF installed.raised.type # "None"
    THEN [cluster |-> cl, calls |-> installed.calls, raised |-> installed.raised,
          log |-> <<>>]
    ELSE [delete_resources(m, cl, Iterate(installed.value, rank), kw, fault)
              EXCEPT !.calls = installed.calls \o @]

\* Manifests.delete_manifests; iteration, listFail, err: as for
\* labelled_resources, rank: the order in which the labelled set is iterated
delete_manifests(m, cl, iteration, listFail, err, rank, kw, fault) ==
    delete_labelled(m, cl, labelled_resources(m, cl, iteration, listFail, err), rank, kw,
                    fault)

----------------------------------------------------------------------------
(* Collector *)

\* sorted(S) for a set of strings
Sorted(S) ==
    CHOOSE s \in Orderings(S) : \A i, j \in DOMAIN s : i < j => StrLess(s[i], s[j])

\* Collector.__init__: the manifests, ordered by name
collector_manifests ==
    LET keys == Sorted({Chars[m] : m \in ManifestNames})
    IN  [i \in DOMAIN keys |-> CHOOSE m \in ManifestNames : Chars[m] = keys[i]]

\* HashableResource.__str__
RECURSIVE Join(_)
Join(parts) ==
    IF parts = <<>> THEN <<>>
    ELSE IF Head(parts) = None THEN Join(Tail(parts))
    ELSE IF Join(Tail(parts)) = <<>> THEN Chars[Head(parts)]
    ELSE Chars[Head(parts)] \o <<"/">> \o Join(Tail(parts))

Str(obj) == Join(uniq(obj))

ResourceAnalysis(manifest, conflicting, correct, extra, missing) ==
    [manifest |-> manifest, conflicting |-> conflicting, correct |-> correct,
     extra |-> extra, missing |-> missing]

\* kind_filter comparing the kind as it is written
kind_filter_as_written(res_filter, rsc) ==
    res_filter = {} \/ Chars[rsc.kind] \in res_filter

\* kind_filter of analyze_resources
kind_filter(res_filter, rsc) ==
    res_filter = {} \/ lower(Chars[rsc.kind]) \in res_filter

\* installed - conflicting
uncontested(installed, conflicting) == {o \in installed : ~In(o, conflicting)}

\* expected & (installed - conflicting), with membership by the fields of
\* the resources instead of their identity
correct_by_fields(expected, installed, conflicting) ==
    {o \in uncontested(installed, conflicting) : o \in expected}

\* expected & (installed - conflicting)
correct(expected, installed, conflicting) ==
    {o \in uncontested(installed, conflicting) : In(o, expected)}

\* labelled, whether expected or not
extra_with_expected(labelled, expected) == labelled

\* labelled - expected
extra(labelled, expected) == {o \in labelled : ~In(o, expected)}

\* expected - installed
missing_not_installed(expected, installed, conflicting) ==
    {e \in expected : ~In(e, installed)}

\* expected - (installed - conflicting)
missing(expected, installed, conflicting) ==
    {e \in expected : ~In(e, uncontested(installed, conflicting))}

\* the four sets of one manifest, missing left as it is
classified_but_missing(m, res_filter, analyses) ==
    ResourceAnalysis(m,
                     {rsc \in analyses[1] : kind_filter(res_filter, rsc)},
                     {rsc \in analyses[2] : kind_filter(res_filter, rsc)},
                     {rsc \in analyses[3] : kind_filter(res_filter, rsc)},
                     analyses[4])

\* the four sets of one manifest, filtered by kind
classified(m, res_filter, analyses) ==
    ResourceAnalysis(m,
                     {rsc \in analyses[1] : kind_filter(res_filter, rsc)},
                     {rsc \in analyses[2] : kind_filter(res_filter, rsc)},
                     {rsc \in analyses[3] : kind_filter(res_filter, rsc)},
                     {rsc \in analyses[4] : kind_filter(res_filter, rsc)})

\* the outcome of the loop body once the four reads are made
analysed(m, res_filter, labelled, expected, installed, conflicting) ==
    IF labelled.raised.type # "None"
    THEN [raised |-> labelled.raised, calls |-> labelled.calls,
          analysis |-> ResourceAnalysis(m, {}, {}, {}, {})]
    ELSE IF conflicting.raised.type # "None"
    THEN [raised |-> conflicting.raised, calls |-> labelled.calls \o installed.calls,
          analysis |-> ResourceAnalysis(m, {}, {}, {}, {})]
    ELSE [raised |-> NoError, calls |-> labelled.calls \o installed.calls,
          analysis |-> classified(m, res_filter,
                                  <<conflicting.value,
                                    correct(expected, installed.value, conflicting.value),
                                    extra(labelled.value, expected),
                                    missing(expected, installed.value, conflicting.value)>>)]

analysed_installed(m, res_filter, labelled, expected, installed) ==
    analysed(m, res_filter, labelled, expected, installed,
             conflicting_resources(m, installed.value))

\* the body of the loop of analyze_resources for one manifest that is not
\* filtered out; order and faults: as for labelled_resources and
\* installed_resources
analysis_of(m, cl, res_filter, order, faults) ==
    analysed_installed(m, res_filter,
                       labelled_resources(m, cl, order, faults.list, faults.err),
                       Range(resources(m)),
                       installed_resources(m, cl, faults.get))

\* results.append(...), rest: the outcome of the later iterations
appended(one, rest) ==
    [raised |-> rest.raised, calls |-> one.calls \o rest.calls,
     results |-> IF rest.raised.type # "None" THEN <<>> ELSE <<one.analysis>> \o rest.results]

\* man_filter or set(self.manifests.keys())
man_filter_of(filter_manifests, keys) ==
    IF filter_manifests # {} THEN filter_manifests ELSE keys

\* name not in man_filter
filtered_out(name, man_filter) == name \notin man_filter

\* the names of self.manifests for which the loop of analyze_resources does
\* not continue at once; keys: the names the manifests were built with,
\* manifests: the tokens of the filter argument
not_filtered_out(keys, manifests) ==
    {name \in keys :
        ~filtered_out(name, man_filter_of({lower(manifests[i]) : i \in DOMAIN manifests}, keys))}

\* the loop of analyze_resources over the manifests names
RECURSIVE analyze_from(_, _, _, _, _, _)
RECURSIVE analyze_next(_, _, _, _, _, _, _)
analyze_next(names, cl, man_filter, res_filter, orders, faults, one) ==
    IF one.raised.type # "None"
    THEN [raised |-> one.raised, calls |-> one.calls, results |-> <<>>]
    ELSE appended(one, analyze_from(Tail(names), cl, man_filter, res_filter, orders, faults))

analyze_from(names, cl, man_filter, res_filter, orders, faults) ==
    IF names = <<>> THEN [raised |-> NoError, calls |-> <<>>, results |-> <<>>]
    ELSE analyze_next(names, cl, man_filter, res_filter, orders, faults,
                      IF filtered_out(Chars[Head(names)], man_filter)
                      THEN [raised |-> NoError, calls |-> <<>>,
                            analysis |-> ResourceAnalysis(Head(names), {}, {}, {}, {})]
                      ELSE analysis_of(Head(names), cl, res_filter, orders, faults))

\* Collector.analyze_resources; manifests and resources: the tokens of the
\* two filter arguments (<<>> for None)
analyze_resources(cl, manifests, resources_, orders, faults) ==
    analyze_from(collector_manifests, cl,
                 man_filter_of({lower(manifests[i]) : i \in DOMAIN manifests},
                               {Chars[m] : m \in ManifestNames}),
                 {lower(resources_[i]) : i \in DOMAIN resources_}, orders, faults)

\* "\n".join(lines)
RECURSIVE JoinLines(_)
JoinLines(lines) ==
    IF lines = <<>> THEN <<>>
    ELSE IF Len(lines) = 1 THEN lines[1]
    ELSE Head(lines) \o <<"\n">> \o JoinLines(Tail(lines))

\* "\n".join(sorted(str(_) for _ in rscs))
listing(rscs) == JoinLines(Sorted({Str(o) : o \in rscs}))

\* the four entries event_result.update adds for one analysed manifest
event_update(analysis) ==
    [key \in {Chars[analysis.manifest] \o <<"-">> \o Chars[k] :
                  k \in {"correct", "extra", "missing", "conflicting"}} |->
        listing(analysis[CHOOSE k \in {"correct", "extra", "missing", "conflicting"} :
                             key = Chars[analysis.manifest] \o <<"-">> \o Chars[k]])]

\* event_result as event.set_results receives it: the entries of the
\* manifests that are not filtered out, those with an empty value left out
event_result(results, man_filter) ==
    LET updates == {event_update(results[i]) :
                       i \in {j \in DOMAIN results : Chars[results[j].manifest] \in man_filter}}
        keys == UNION {DOMAIN u : u \in updates}
        value(k) == (CHOOSE u \in updates : k \in DOMAIN u)[k]
    IN  [k \in {key \in keys : value(key) # <<>>} |-> value(k)]

\* Collector.analyze_resources on an action event: what it returns and what
\* it sets as the results of the action
analyze_resources_event(cl, manifests, resources_, orders, faults) ==
    LET result == analyze_resources(cl, manifests, resources_, orders, faults)
    IN  [raised |-> result.raised, calls |-> result.calls,
         results |-> result.results,
         event_result |->
             IF result.raised.type # "None" THEN <<>>
             ELSE event_result(result.results,
                               man_filter_of({lower(manifests[i]) : i \in DOMAIN manifests},
                               {Chars[m] : m \in ManifestNames}))]

\* Collector.all_conditions
all_conditions(cl, getFail) ==
    UNION {UNION {{<<name, obj, obj.conds[i]>> : i \in DOMAIN obj.conds} :
                      obj \in status(name, cl, getFail).value} :
               name \in ManifestNames}

\* one line of Collector.unready
Line(name, obj, cond) ==
    Chars[name] \o <<":", " ">> \o Str(obj)
        \o <<" ", "i", "s", " ", "n", "o", "t", " ">> \o Chars[cond.type]

\* Collector.unready
unready(cl, getFail) ==
    Sorted({Line(t[1], t[2], t[3]) :
                t \in {c \in all_conditions(cl, getFail) :
                          is_ready_of(c[1], c[2], c[3]) = "False"}})

\* the resources a remediation acts on, with those that need no action
targets_with_settled(action, analysis) ==
    IF action = "scrub_resources" THEN analysis.extra \cup analysis.conflicting
    ELSE analysis.missing \cup analysis.correct

\* the resources a remediation acts on: analysis.extra of scrub_resources,
\* analysis.missing of apply_missing_resources
targets(action, analysis) ==
    IF action = "scrub_resources" THEN analysis.extra ELSE analysis.missing

\* delete_resources(*analysis.extra) or apply_resources(*analysis.missing)
act(action, m, cl, batch, fault) ==
    IF action = "scrub_resources" THEN delete_resources(m, cl, batch, DefaultKw, fault)
    ELSE apply_resources(cl, batch, fault)

\* the body of the loop over the analyses: nothing is done for an empty set
act_on(action, analysis, cl, batch, fault) ==
    IF batch = <<>> THEN [cluster |-> cl, calls |-> <<>>, raised |-> NoError]
    ELSE act(action, analysis.manifest, cl, batch, fault)

\* the loop of a remediation over the analyses; rank: the order in which a
\* set of resources is iterated, fault: the write that fails
RECURSIVE act_from(_, _, _, _, _)
RECURSIVE act_next(_, _, _, _, _)
act_next(action, results, rank, fault, one) ==
    IF one.raised.type # "None"
    THEN [cluster |-> one.cluster, calls |-> one.calls, raised |-> one.raised]
    ELSE LET rest == act_from(action, Tail(results), one.cluster, rank, fault)
         IN  [cluster |-> rest.cluster, calls |-> one.calls \o rest.calls,
              raised |-> rest.raised]

act_from(action, results, cl, rank, fault) ==
    IF results = <<>> THEN [cluster |-> cl, calls |-> <<>>, raised |-> NoError]
    ELSE act_next(action, results, rank, fault,
                  act_on(action, Head(results), cl,
                         Iterate(targets(action, Head(results)), rank), fault))

\* Collector.list_resources
list_resources(cl, manifests, resources_, orders, faults) ==
    analyze_resources(cl, manifests, resources_, orders, faults)

\* self.list_resources(event, manifests, resources) after the loop
relisted(first, acted, second) ==
    [cluster |-> acted.cluster, raised |-> second.raised,
     calls |-> first.calls \o acted.calls \o second.calls, results |-> second.results]

\* the loop, followed by the analysis made before it
remediated_reporting_first(action, manifests, resources_, orders, faults, first, acted) ==
    [cluster |-> acted.cluster, raised |-> acted.raised,
     calls |-> first.calls \o acted.calls,
     results |-> IF acted.raised.type # "None" THEN <<>> ELSE first.results]

\* the loop and what follows it, first: the analysis before
remediated(action, manifests, resources_, orders, faults, first, acted) ==
    IF acted.raised.type # "None"
    THEN [cluster |-> acted.cluster, raised |-> acted.raised,
          calls |-> first.calls \o acted.calls, results |-> <<>>]
    ELSE relisted(first, acted,
                  list_resources(acted.cluster, manifests, resources_, orders, faults))

remedy(action, cl, manifests, resources_, orders, faults, rank, fault, first) ==
    IF first.raised.type # "None"
    THEN [cluster |-> cl, raised |-> first.raised, calls |-> first.calls, results |-> <<>>]
    ELSE remediated(action, manifests, resources_, orders, faults[2], first,
                    act_from(action, first.results, cl, rank, fault))

\* Collector.scrub_resources; faults: the read faults of the analysis before
\* and of the analysis after
scrub_resources(cl, manifests, resources_, orders, faults, rank, fault) ==
    remedy("scrub_resources", cl, manifests, resources_, orders, faults, rank, fault,
           analyze_resources(cl, manifests, resources_, orders, faults[1]))

\* Collector.apply_missing_resources
apply_missing_resources(cl, manifests, resources_, orders, faults, rank, fault) ==
    remedy("apply_missing_resources", cl, manifests, resources_, orders, faults, rank, fault,
           analyze_resources(cl, manifests, resources_, orders, faults[1]))

----------------------------------------------------------------------------
(* The inputs of the operations *)

\* the labels another actor puts on a resource
ForeignLabels ==
    {NoLabels,
     [NoLabels EXCEPT ![APP_LABEL] = <<OtherApp>>, ![MANIFEST_LABEL] = <<"alpha">>]}

\* the labels an earlier revision of this charm left on a resource
EarlierLabels == [NoLabels EXCEPT ![APP_LABEL] = <<AppName>>, ![MANIFEST_LABEL] = <<"alpha">>]

\* the resources other actors create
ForeignResources == {DepA, DepC, CmB}

\* the conditions a controller reports
CondLists ==
    {<<>>, <<[type |-> "Ready", status |-> "True"]>>, <<[type |-> "Ready", status |-> "False"]>>}

\* the conditions an operator may report of any resource
StatusCondLists ==
    {<<>>,
     <<[type |-> "Ready", status |-> "True"], [type |-> "Ignored", status |-> "False"]>>,
     <<[type |-> "Ready", status |-> "Unknown"]>>,
     <<[type |-> "Ready", status |-> "False"], [type |-> "Ignored", status |-> "False"]>>}

\* every (namespace, kind) pair of a declared resource
AllNsKinds == {<<obj.namespace, TypeOf(obj)>> : obj \in ForeignResources}

\* the orders in which a set of (namespace, kind) pairs may be iterated
IterationOrders == Orderings(AllNsKinds)

\* the reads that may fail although the cluster could answer
Gets == {<<"alpha", uniq(DepA)>>, <<"beta", uniq(CmB)>>}
Lists == {<<"alpha", <<"ns1", "Deployment">>>>, <<"beta", <<"ns2", "ConfigMap">>>>}

\* what a failing list call fails with
ListError == Unauthorized

\* at most one read of an operation fails although the cluster could answer
NoReadFault == [get |-> {}, list |-> {}, err |-> NoError]

ReadFaults ==
    {NoReadFault}
    \cup {[get |-> {g}, list |-> {}, err |-> NoError] : g \in Gets}
    \cup {[get |-> {}, list |-> {l}, err |-> ListError] : l \in Lists}

GetFaults == {{}} \cup {{g} : g \in Gets}

\* the filter arguments of the actions, as token lists
ManifestFilters == {<<>>, <<Chars["beta"]>>}
ResourceFilters == {<<>>, <<Chars["Deployment"]>>}

\* the names charms give to their manifests, and the tokens of manifest
\* filters
CollectedNames == {Chars["alpha"], Chars["Alpha"], Chars["beta"]}
NameTokens == {Chars["alpha"], Chars["Alpha"], Chars["beta"], Chars["BETA"], Chars["gamma"]}

\* the filter arguments of the list-resources action
ListedManifests ==
    {<<>>, <<Chars["beta"]>>, <<Chars["BETA"]>>, <<Chars["gamma"]>>,
     <<Chars["beta"], Chars["alpha"]>>}
ListedResources ==
    {<<>>, <<Chars["deployment"]>>, <<Chars["DEPLOYMENT"], Chars["Service"]>>,
     <<Chars["ConfigMap"]>>}

\* a ConfigMap declared without a namespace
CmE == Rsc("ConfigMap", None, "b")

\* the resources callers hand to delete_resources
DeletePool == {DepA, CmB, CmE}

Batches(pool, n) == UNION {{s \in [1..k -> pool] : \A i, j \in 1..k : i # j => s[i] # s[j]} : k \in 0..n}

DeleteKws ==
    [namespace : {None, "ns2"}, ignore_not_found : BOOLEAN,
     ignore_unauthorized : BOOLEAN, ignore_labels : BOOLEAN]

WriteFaults(n, stages, errs) ==
    {NoFault} \cup [at : 1..n, stage : stages, err : errs]

\* the faults of apply_manifests
ApplyErrors == {Unauthorized, HTTPError(<<"5", "0", "2">>)}
ApplyFaults == {NoFault, [at |-> 2, stage |-> "apply", err |-> Unauthorized]}

\* the resources callers hand to apply_resources, before they are patched
ApplyPool == ForeignResources

\* the faults of the list calls of labelled_resources
ListFaults == {f \in ReadFaults : f.get = {}}

\* the orders in which a set of resources may be iterated
IdentityOrders ==
    {<<uniq(DepA), uniq(DepC), uniq(CmB)>>, <<uniq(CmB), uniq(DepC), uniq(DepA)>>}

\* keyword arguments that ignore what can be ignored
IgnoreKw ==
    [namespace |-> None, ignore_not_found |-> TRUE, ignore_unauthorized |-> TRUE,
     ignore_labels |-> FALSE]

\* the faults of delete_resources on a batch of n resources
DeleteFaults(n) ==
    WriteFaults(n, {"delete"}, ClientErrors) \cup WriteFaults(n, {"list"}, {Unauthorized})

\* the faults of the deletes of delete_manifests
DeleteAllFaults == WriteFaults(2, {"delete"}, {NotFound})

\* a Deployment with two containers, one of them without an image, and an
\* init container
Web ==
    Rsc("Deployment", "ns1", "w")
        @@ [images |-> <<<<"docker.io", "library", "nginx">>, <<>>, <<"quay.io", "init">>>>]

\* the same Deployment as another file declares it
WebOld == [Web EXCEPT !.labels[OTHER_LABEL] = <<"old">>]

\* a Deployment whose image names no registry
Solo == Rsc("Deployment", "ns1", "s") @@ [images |-> <<<<"nginx">>>>]

\* a ConfigMap that carries the labels of another owner and one of its own
CmStale ==
    [CmB EXCEPT !.labels =
        [k \in LabelKeys |->
            CASE k = APP_LABEL -> <<OtherApp>>
              [] k = MANIFEST_LABEL -> <<"beta">>
              [] k = VERSION_LABEL -> <<"beta", "-", "v0">>
              [] OTHER -> <<"keep">>]]

\* a resource without metadata
Bare == [Rsc("Deployment", None, None) EXCEPT !.metadata = FALSE]

\* the resources a charm may call ManifestLabel with
LabelPool == {DepA, CmStale, WebOld, Bare}

\* the resources a charm may call ConfigRegistry with: one of each kind
\* with a pod specification and of two kinds without, its containers one
\* with an image, one without and an init container, and a Deployment whose
\* image names no registry
RegistryPool ==
    {Rsc(kind, "ns1", "w")
         @@ [images |-> <<<<"docker.io", "library", "nginx">>, <<>>, <<"quay.io", "init">>>>] :
         kind \in PodSpecKinds \cup {"ConfigMap", "PodTemplate"}}
    \cup {Solo}

\* the tolerations a declaration may list
Tolerations ==
    {[effect |-> None, key |-> "a", operator |-> "Exists", tolerationSeconds |-> None,
      value |-> None],
     [effect |-> "NoSchedule", key |-> "b", operator |-> "Exists", tolerationSeconds |-> None,
      value |-> None],
     [effect |-> None, key |-> "NoSchedule", operator |-> "b", tolerationSeconds |-> None,
      value |-> "Exists"],
     [effect |-> "NoExecute", key |-> "b", operator |-> "Exists", tolerationSeconds |-> "30",
      value |-> None]}

\* the resources a charm may call update_tolerations with: of the kinds it
\* adjusts and of two others, with up to MaxTolerations tolerations, and a
\* Pod without specification
AdjustPool ==
    {Rsc(kind, "ns1", "w") @@ [tolerations |-> tolerations] :
         kind \in {"Pod", "DaemonSet", "Deployment", "StatefulSet", "Job", "ConfigMap"},
         tolerations \in UNION {[1..n -> Tolerations] : n \in 0..MaxTolerations}}
    \cup {Rsc("Pod", "ns1", "w")}

\* the Namespace ns1, declared in a file or yielded by an Addition
Ns1 == Rsc("Namespace", None, "ns1")

\* Deployment ns1/c as an Addition yields it
DepCAdded == [DepC EXCEPT !.labels[OTHER_LABEL] = <<"added">>]

\* a List of a resource and a List
Listed == [apiVersion |-> "v1", kind |-> "List",
           items |-> <<DepC, [apiVersion |-> "v1", kind |-> "List", items |-> <<CmB>>]>>]

\* the directories a charm may ship: files whose sorted order is not the
\* order of the two globs, the same resource declared twice, a file that is
\* no declaration, a default release without a directory, no release at all
ResolveTrees ==
    {[version |-> "v1",
      manifests |-> [v1 |-> [f1 |-> <<Web, DepC>>, f2 |-> <<CmStale, WebOld>>,
                             f3 |-> <<Ns1, DepC, DepA>>, notes |-> <<CmE>>],
                     v2 |-> [f1 |-> <<Web>>]]],
     [version |-> "",
      manifests |-> [v1 |-> [f1 |-> <<DepA>>],
                     v2 |-> [f2 |-> <<Listed, Web>>, f3 |-> <<Solo>>]]],
     [version |-> "v3",
      manifests |-> [v1 |-> [f1 |-> <<DepA, CmB>>]]],
     [version |-> "",
      manifests |-> [v1 |-> [notes |-> <<CmB>>]]]}

\* the manipulation lists a charm may build such a manifest with
ResolveLists ==
    {<<[type |-> "ManifestLabel"]>>,
     <<>>,
     <<[type |-> "Addition", yields |-> <<Ns1, [scalar |-> None], DepCAdded>>],
       [type |-> "SubtractEq", to_compare |-> DepC],
       [type |-> "ManifestLabel"],
       [type |-> "ConfigRegistry"],
       [type |-> "Addition", yields |-> <<CmB, DepCAdded>>]>>,
     <<[type |-> "CreateNamespace", namespace |-> "ns1"], [type |-> "ManifestLabel"]>>,
     <<[type |-> "SubtractEq", to_compare |-> CmB], [type |-> "ConfigRegistry"]>>,
     <<[type |-> "ConfigRegistry"], [type |-> "ManifestLabel"],
       [type |-> "SubtractEq", to_compare |-> DepA],
       [type |-> "SubtractEq", to_compare |-> Ns1]>>}

\* the configurations of such a charm
ResolveConfigs ==
    {("release" :> release) @@ ("image-registry" :> registry) :
         release \in {"", "v2", "v9"},
         registry \in {<<>>, <<"rocks">>, <<"rocks", "cdk">>}}

\* the names of the release directories a charm may ship
ReleaseNames == {"v1.1.2", "v1.1.9", "v1.1.10", "v2", "v10"}

\* what a release directory may hold: a .yaml and a .yml file, a .yml file,
\* or no declaration at all
ReleaseDirs == {[f1 |-> <<DepA>>, f2 |-> <<CmB>>], [f2 |-> <<DepC>>], [notes |-> <<CmB>>]}

\* the directories of a charm of up to MaxReleases releases, its version
\* file absent, naming a release it ships or naming one it does not
ReleaseTrees ==
    {[version |-> version, manifests |-> manifests] :
         version \in {"", "v1.1.9", "v3"},
         manifests \in UNION {[names -> ReleaseDirs] :
                                  names \in {S \in SUBSET ReleaseNames :
                                                 Cardinality(S) <= MaxReleases}}}

\* the documents of a file that are no List: two resources, a mapping
\* without apiVersion, a mapping whose kind is empty and a scalar
LeafDocs ==
    {DepA, CmB, [kind |-> "Pod", name |-> "a"],
     [apiVersion |-> "v1", kind |-> "", name |-> "b"], [scalar |-> "text"]}

\* the sequences of items of a List: none, one, or a resource or a scalar
\* before or after one
ItemLists(docs) ==
    {<<>>} \cup {<<x>> : x \in docs}
           \cup {<<l, x>> : l \in {DepA, [scalar |-> "text"]}, x \in docs}
           \cup {<<x, l>> : l \in {DepA, [scalar |-> "text"]}, x \in docs}

\* the documents nested up to depth Lists deep: a List or PodList of items,
\* a List without items, a List without apiVersion
RECURSIVE Documents(_)
Documents(depth) ==
    IF depth = 0 THEN LeafDocs
    ELSE LeafDocs
         \cup {[apiVersion |-> "v1", kind |-> kind, items |-> items] :
                   kind \in {"List", "PodList"}, items \in ItemLists(Documents(depth - 1))}
         \cup {[apiVersion |-> "v1", kind |-> "List"],
               [kind |-> "List", items |-> <<DepC>>]}

\* the read faults of the two analyses of a remediation: at most one read
\* fails
RemedyFaults ==
    {<<f, NoReadFault>> : f \in ReadFaults} \cup {<<NoReadFault, f>> : f \in ReadFaults}

\* the first write of a batch fails, or none does
RemedyWriteFaults(stage) == {NoFault, [at |-> 1, stage |-> stage, err |-> Unauthorized]}

Idle == [name |-> "idle"]

----------------------------------------------------------------------------
(* The state machine *)

Init ==
    /\ files = BasePaths
    /\ cluster = {}
    /\ config = [m \in ManifestNames |-> [release |-> ""]]
    /\ manips \in {f \in [ManifestNames -> UNION {ManipulationLists(m) : m \in ManifestNames}] :
                      \A m \in ManifestNames : f[m] \in ManipulationLists(m)}
    /\ op = Idle
    /\ before = {}
    /\ raised = NoError
    /\ calls = <<>>
    /\ ret = {}

\* the caller has the outcome of the call
Return ==
    /\ op.name # "idle"
    /\ op' = Idle
    /\ before' = {}
    /\ raised' = NoError
    /\ calls' = <<>>
    /\ ret' = {}
    /\ UNCHANGED <<files, cluster, config, manips>>

\* another actor creates a resource or replaces its labels
ForeignApply(obj, labs) ==
    /\ op.name = "idle"
    /\ LET old == Live(cluster, obj.kind, obj.name, obj.namespace)
           new == IF old = {} THEN [obj EXCEPT !.labels = labs]
                  ELSE [(CHOOSE o \in old : TRUE) EXCEPT !.labels = labs]
       IN  cluster' = (cluster \ old) \cup {new}
    /\ UNCHANGED <<files, config, manips, op, before, raised, calls, ret>>

\* another actor deletes a resource
ForeignDelete(obj) ==
    /\ op.name = "idle"
    /\ obj \in cluster
    /\ cluster' = cluster \ {obj}
    /\ UNCHANGED <<files, config, manips, op, before, raised, calls, ret>>

\* the controller of a Deployment reports its conditions
Controller(obj, conds) ==
    /\ op.name = "idle"
    /\ obj \in cluster
    /\ uniq(obj) = uniq(DepA)
    /\ cluster' = (cluster \ {obj}) \cup {[obj EXCEPT !.conds = conds]}
    /\ UNCHANGED <<files, config, manips, op, before, raised, calls, ret>>

\* an operator reports the conditions of a resource
Reports(obj, conds) ==
    /\ op.name = "idle"
    /\ obj \in cluster
    /\ cluster' = (cluster \ {obj}) \cup {[obj EXCEPT !.conds = conds]}
    /\ UNCHANGED <<files, config, manips, op, before, raised, calls, ret>>

\* the charm's configuration changes
SetConfig(m, release) ==
    /\ op.name = "idle"
    /\ config[m].release # release
    /\ config' = [config EXCEPT ![m].release = release]
    /\ UNCHANGED <<files, cluster, manips, op, before, raised, calls, ret>>

Outcome(o, result, value) ==
    /\ op' = o
    /\ before' = cluster
    /\ cluster' = result.cluster
    /\ raised' = result.raised
    /\ calls' = result.calls
    /\ ret' = value
    /\ UNCHANGED <<files, config, manips>>

Unchanged(result) == [cluster |-> cluster, raised |-> result.raised, calls |-> result.calls]

AnalyzeResources(manifests, resources_, orders, faults) ==
    /\ op.name = "idle"
    /\ \E result \in {analyze_resources(cluster, manifests, resources_, orders, faults)} :
           Outcome([name |-> "analyze_resources", manifests |-> manifests,
                    resources |-> resources_, orders |-> orders, faults |-> faults],
                   Unchanged(result), result.results)

\* the loop of analyze_resources of a Collector of manifests named keys, up
\* to the reads of the cluster
SelectManifests(keys, manifests) ==
    /\ op.name = "idle"
    /\ Outcome([name |-> "select", keys |-> keys, manifests |-> manifests],
               [cluster |-> cluster, raised |-> NoError, calls |-> <<>>],
               not_filtered_out(keys, manifests))

ListResources(manifests, resources_, orders, faults) ==
    /\ op.name = "idle"
    /\ \E result \in {analyze_resources_event(cluster, manifests, resources_, orders,
                                               faults)} :
           Outcome([name |-> "list_resources", manifests |-> manifests,
                    resources |-> resources_, orders |-> orders, faults |-> faults],
                   Unchanged(result),
                   [results |-> result.results, event_result |-> result.event_result])

InstalledResources(m, getFail) ==
    /\ op.name = "idle"
    /\ \E result \in {installed_resources(m, cluster, getFail)} :
           Outcome([name |-> "installed_resources", m |-> m, getFail |-> getFail],
                   [cluster |-> cluster, raised |-> NoError, calls |-> result.calls],
                   result.value)

Status(m, getFail) ==
    /\ op.name = "idle"
    /\ \E result \in {status(m, cluster, getFail)} :
           Outcome([name |-> "status", m |-> m, getFail |-> getFail],
                   [cluster |-> cluster, raised |-> NoError, calls |-> result.calls],
                   result.value)

Unready(getFail) ==
    /\ op.name = "idle"
    /\ Outcome([name |-> "unready", getFail |-> getFail],
               [cluster |-> cluster, raised |-> NoError, calls |-> <<>>],
               unready(cluster, getFail))

ApplyManifests(m, fault) ==
    /\ op.name = "idle"
    /\ \E result \in {apply_manifests(m, cluster, fault)} :
           Outcome([name |-> "apply_manifests", m |-> m, batch |-> resources(m),
                    fault |-> fault],
                   result, {})

ApplyResources(m, batch, fault) ==
    /\ op.name = "idle"
    /\ \E result \in {apply_resources(cluster, batch, fault)} :
           Outcome([name |-> "apply_resources", m |-> m, batch |-> batch, fault |-> fault],
                   result, {})

DeleteResources(m, batch, kw, fault) ==
    /\ op.name = "idle"
    /\ \E result \in {delete_resources(m, cluster, batch, kw, fault)} :
           Outcome([name |-> "delete_resources", m |-> m, batch |-> batch, kw |-> kw,
                    fault |-> fault],
                   result, result.log)

DeleteManifests(m, iteration, faults, rank, kw, fault) ==
    /\ op.name = "idle"
    /\ \E result \in {delete_manifests(m, cluster, iteration, faults.list, faults.err, rank,
                                      kw, fault)} :
           Outcome([name |-> "delete_manifests", m |-> m, iteration |-> iteration,
                    faults |-> faults, rank |-> rank, kw |-> kw, fault |-> fault],
                   result, result.log)

\* the property Manifests.resources is read
Resources(m) ==
    /\ op.name = "idle"
    /\ \E result \in {resolved(m)} :
           /\ op' = [name |-> "resources", m |-> m]
           /\ files' = result.files
           /\ raised' = result.raised
           /\ ret' = result.value
    /\ before' = cluster
    /\ calls' = <<>>
    /\ UNCHANGED <<cluster, config, manips>>

\* the property Manifests.releases is read
Releases(m) ==
    /\ op.name = "idle"
    /\ op' = [name |-> "releases", m |-> m]
    /\ raised' = NoError
    /\ ret' = releases(m)
    /\ before' = cluster
    /\ calls' = <<>>
    /\ UNCHANGED <<files, cluster, config, manips>>

\* the property Manifests.latest_release is read
LatestRelease(m) ==
    /\ op.name = "idle"
    /\ op' = [name |-> "latest_release", m |-> m]
    /\ raised' = IF releases(m) = <<>> THEN IndexError ELSE NoError
    /\ ret' = latest_release(m)
    /\ before' = cluster
    /\ calls' = <<>>
    /\ UNCHANGED <<files, cluster, config, manips>>

\* the property Manifests.current_release is read
CurrentRelease(m) ==
    /\ op.name = "idle"
    /\ op' = [name |-> "current_release", m |-> m]
    /\ raised' = current_release_raised(m)
    /\ ret' = current_release(m)
    /\ before' = cluster
    /\ calls' = <<>>
    /\ UNCHANGED <<files, cluster, config, manips>>

\* _safe_load called with a file of the current release
SafeLoad(m, path) ==
    /\ op.name = "idle"
    /\ current_release_raised(m) = NoError
    /\ current_release(m) \in DOMAIN ReleaseFiles(m)
    /\ path \in DOMAIN ReleaseFiles(m)[current_release(m)]
    /\ op' = [name |-> "_safe_load", m |-> m, path |-> path]
    /\ raised' = NoError
    /\ ret' = [resources |-> _safe_load(m, current_release(m), path),
               log |-> warnings(ReleaseFiles(m)[current_release(m)][path])]
    /\ before' = cluster
    /\ calls' = <<>>
    /\ UNCHANGED <<files, cluster, config, manips>>

\* ManifestLabel(manifest) called with obj, once or again on its outcome
CallManifestLabel(m, obj, times) ==
    /\ op.name = "idle"
    /\ op' = [name |-> "ManifestLabel", m |-> m, obj |-> obj, times |-> times]
    /\ \E labelled \in {ManifestLabel(m, obj)} :
           IF obj.metadata /\ current_release_raised(m) # NoError
           THEN raised' = current_release_raised(m) /\ ret' = obj
           ELSE /\ raised' = NoError
                /\ ret' = IF times = 1 THEN labelled ELSE ManifestLabel(m, labelled)
    /\ before' = cluster
    /\ calls' = <<>>
    /\ UNCHANGED <<files, cluster, config, manips>>

\* ConfigRegistry(manifest) called with obj, once or again on its outcome
CallConfigRegistry(m, obj, times) ==
    /\ op.name = "idle"
    /\ op' = [name |-> "ConfigRegistry", m |-> m, obj |-> obj, times |-> times]
    /\ \E rewritten \in {ConfigRegistry(m, obj)} :
           IF unpack_fails(m, obj)
           THEN raised' = ValueError /\ ret' = obj
           ELSE /\ raised' = NoError
                /\ ret' = IF times = 1 THEN rewritten ELSE ConfigRegistry(m, rewritten)
    /\ before' = cluster
    /\ calls' = <<>>
    /\ UNCHANGED <<files, cluster, config, manips>>

\* update_tolerations called with obj and an adjuster
UpdateTolerations(obj, adjuster) ==
    /\ op.name = "idle"
    /\ op' = [name |-> "update_tolerations", obj |-> obj,
              adjusted |-> IF "tolerations" \in DOMAIN obj
                           THEN adjust(adjuster, obj.tolerations) ELSE <<>>]
    /\ raised' = NoError
    /\ ret' = update_tolerations(obj, adjuster)
    /\ before' = cluster
    /\ calls' = <<>>
    /\ UNCHANGED <<files, cluster, config, manips>>

\* conflicting_resources called with a set the caller read from the cluster
ConflictingResources(m, installed) ==
    /\ op.name = "idle"
    /\ \E result \in {conflicting_resources(m, installed)} :
           Outcome([name |-> "conflicting_resources", m |-> m, installed |-> installed],
                   [cluster |-> cluster, raised |-> result.raised, calls |-> <<>>],
                   result.value)

ScrubResources(manifests, resources_, orders, faults, rank, fault) ==
    /\ op.name = "idle"
    /\ \E result \in {scrub_resources(cluster, manifests, resources_, orders, faults, rank,
                                      fault)} :
           Outcome([name |-> "scrub_resources", manifests |-> manifests,
                    resources |-> resources_, orders |-> orders, faults |-> faults,
                    rank |-> rank, fault |-> fault],
                   result, result.results)

ApplyMissingResources(manifests, resources_, orders, faults, rank, fault) ==
    /\ op.name = "idle"
    /\ \E result \in {apply_missing_resources(cluster, manifests, resources_, orders, faults,
                                              rank, fault)} :
           Outcome([name |-> "apply_missing_resources", manifests |-> manifests,
                    resources |-> resources_, orders |-> orders, faults |-> faults,
                    rank |-> rank, fault |-> fault],
                   result, result.results)

Foreign ==
    \/ \E obj \in ForeignResources, labs \in ForeignLabels : ForeignApply(obj, labs)
    \/ ForeignApply(DepC, EarlierLabels)
    \/ \E obj \in cluster : ForeignDelete(obj)

Configure == \E m \in ManifestNames : \E release \in ConfigReleases(m) : SetConfig(m, release)

Condition == \E obj \in cluster, conds \in CondLists : Controller(obj, conds)

Apply == \E m \in ManifestNames, fault \in ApplyFaults : ApplyManifests(m, fault)

Analyze ==
    \E manifests \in ManifestFilters, resources_ \in ResourceFilters,
       orders \in IterationOrders, faults \in ReadFaults :
        AnalyzeResources(manifests, resources_, orders, faults)

DeleteAll ==
    \E m \in ManifestNames, iteration \in IterationOrders, faults \in ListFaults,
       rank \in IdentityOrders, kw \in {DefaultKw, IgnoreKw}, fault \in DeleteAllFaults :
        DeleteManifests(m, iteration, faults, rank, kw, fault)

\* drift analysis and clean-up of a cluster that charms and others change
Next ==
    \/ Foreign
    \/ Configure
    \/ Apply
    \/ Analyze
    \/ DeleteAll
    \/ Return

Spec == Init /\ [][Next]_vars

Read ==
    \/ \E m \in ManifestNames, g \in GetFaults : InstalledResources(m, g)
    \/ \E m \in ManifestNames, g \in GetFaults : Status(m, g)
    \/ \E g \in GetFaults : Unready(g)
    \/ \E m \in ManifestNames, installed \in SUBSET cluster : ConflictingResources(m, installed)

\* reading what is installed while controllers report conditions
NextRead ==
    \/ Foreign
    \/ Condition
    \/ Read
    \/ Return

SpecRead == Init /\ [][NextRead]_vars

ApplyBatch ==
    \E m \in ManifestNames, batch \in Batches(ApplyPool, MaxApply) :
        \E fault \in WriteFaults(Len(batch), {"apply"}, ApplyErrors) :
            ApplyResources(m, [i \in DOMAIN batch |-> patched(m, batch[i], manips[m])], fault)

\* applying batches of resources
NextApply ==
    \/ Foreign
    \/ ApplyBatch
    \/ Return

SpecApply == Init /\ [][NextApply]_vars

\* (a namespace argument and a failing list call are drawn where the call
\* can make use of them)
DeleteBatch ==
    \E batch \in Batches(DeletePool, MaxBatch) :
        \E kw \in {k \in DeleteKws :
                      k.namespace = None \/ \E i \in DOMAIN batch : batch[i].namespace = None} :
            \E fault \in {f \in DeleteFaults(Len(batch)) :
                             f.stage # "list" \/ ~kw.ignore_labels} :
                DeleteResources("alpha", batch, kw, fault)

\* deleting batches of resources, some of them of other owners
NextDelete ==
    \/ \E obj \in DeletePool \cap ForeignResources, labs \in ForeignLabels :
           ForeignApply(obj, labs)
    \/ \E obj \in cluster : ForeignDelete(obj)
    \/ \E m \in ManifestNames : ApplyManifests(m, NoFault)
    \/ DeleteBatch
    \/ Return

\* every manifest is built with the default manipulations
InitDefault ==
    /\ Init
    /\ \A m \in ManifestNames : manips[m] = <<[type |-> "ManifestLabel"]>>

SpecDelete == InitDefault /\ [][NextDelete]_vars

\* (a write fails in a call whose reads all succeed)
Remedy ==
    \E manifests \in ManifestFilters, resources_ \in ResourceFilters,
       orders \in IterationOrders, faults \in RemedyFaults, rank \in IdentityOrders :
        \/ \E fault \in {f \in RemedyWriteFaults("delete") :
                             f = NoFault \/ faults = <<NoReadFault, NoReadFault>>} :
               ScrubResources(manifests, resources_, orders, faults, rank, fault)
        \/ \E fault \in {f \in RemedyWriteFaults("apply") :
                             f = NoFault \/ faults = <<NoReadFault, NoReadFault>>} :
               ApplyMissingResources(manifests, resources_, orders, faults, rank, fault)

\* remediation of the drift that charms and others cause
NextRemedy ==
    \/ Foreign
    \/ Configure
    \/ \E m \in ManifestNames : ApplyManifests(m, NoFault)
    \/ Remedy
    \/ Return

SpecRemedy == InitDefault /\ [][NextRemedy]_vars

List ==
    \E manifests \in ListedManifests, resources_ \in ListedResources,
       orders \in IterationOrders, faults \in ReadFaults :
        ListResources(manifests, resources_, orders, faults)

\* the list-resources action on a cluster that charms and others change
NextList ==
    \/ Foreign
    \/ \E m \in ManifestNames : ApplyManifests(m, NoFault)
    \/ List
    \/ Return

SpecList == InitDefault /\ [][NextList]_vars

\* the manifests an analysis takes up, for Collectors of manifests of any
\* names and filters of up to two tokens
NextSelect ==
    \/ \E keys \in SUBSET CollectedNames \ {{}} :
           \E manifests \in {<<>>} \cup {<<t>> : t \in NameTokens}
                              \cup {<<t, u>> : t \in NameTokens, u \in NameTokens} :
               SelectManifests(keys, manifests)
    \/ Return

SpecSelect == InitDefault /\ [][NextSelect]_vars

\* a charm built on any of the directories, with any of the manipulation
\* lists and configurations
InitResolve ==
    /\ files \in {[BasePaths EXCEPT !.alpha = tree] : tree \in ResolveTrees}
    /\ cluster = {}
    /\ config \in {[alpha |-> c, beta |-> [release |-> ""]] : c \in ResolveConfigs}
    /\ manips \in {[alpha |-> ms, beta |-> <<[type |-> "ManifestLabel"]>>] :
                       ms \in ResolveLists}
    /\ op = Idle
    /\ before = {}
    /\ raised = NoError
    /\ calls = <<>>
    /\ ret = {}

\* resolving and applying the resources of a manifest
NextResolve ==
    \/ \E m \in ManifestNames : Resources(m)
    \/ \E m \in ManifestNames : ApplyManifests(m, NoFault)
    \/ \E m \in ManifestNames, obj \in LabelPool, times \in {1, 2} :
           CallManifestLabel(m, obj, times)
    \/ \E m \in ManifestNames, obj \in RegistryPool, times \in {1, 2} :
           CallConfigRegistry(m, obj, times)
    \/ Return

SpecResolve == InitResolve /\ [][NextResolve]_vars

\* a charm with any of the release directories, version files and configured
\* releases
InitRelease ==
    /\ files \in {[BasePaths EXCEPT !.alpha = tree] : tree \in ReleaseTrees}
    /\ cluster = {}
    /\ config \in {[alpha |-> [release |-> release], beta |-> [release |-> ""]] :
                       release \in {"", "v9", "v1.1.2"}}
    /\ manips = [m \in ManifestNames |-> <<[type |-> "ManifestLabel"]>>]
    /\ op = Idle
    /\ before = {}
    /\ raised = NoError
    /\ calls = <<>>
    /\ ret = {}

\* reading the releases of a manifest and resolving the current one
NextRelease ==
    \/ \E m \in ManifestNames : Releases(m)
    \/ \E m \in ManifestNames : LatestRelease(m)
    \/ \E m \in ManifestNames : CurrentRelease(m)
    \/ \E m \in ManifestNames : Resources(m)
    \/ Return

SpecRelease == InitRelease /\ [][NextRelease]_vars

\* a charm whose release has one file, of any one or two documents
InitLoad ==
    /\ files \in {[BasePaths EXCEPT !.alpha.manifests.v1 = [f1 |-> docs]] :
                      docs \in ItemLists(Documents(MaxDepth))}
    /\ cluster = {}
    /\ config = [m \in ManifestNames |-> [release |-> ""]]
    /\ manips = [m \in ManifestNames |-> <<[type |-> "ManifestLabel"]>>]
    /\ op = Idle
    /\ before = {}
    /\ raised = NoError
    /\ calls = <<>>
    /\ ret = {}

\* loading the files of a release
NextLoad ==
    \/ \E m \in ManifestNames, path \in DOMAIN FileType : SafeLoad(m, path)
    \/ Return

SpecLoad == InitLoad /\ [][NextLoad]_vars

\* reading what is not ready while operators report conditions
NextStatus ==
    \/ \E obj \in ForeignResources : ForeignApply(obj, NoLabels)
    \/ \E obj \in cluster : ForeignDelete(obj)
    \/ \E obj \in cluster, conds \in StatusCondLists : Reports(obj, conds)
    \/ \E g \in GetFaults : Unready(g)
    \/ Return

SpecStatus == InitDefault /\ [][NextStatus]_vars

\* adjusting the tolerations of a resource
NextAdjust ==
    \/ \E obj \in AdjustPool, adjuster \in {"keep", "retarget", "extend"} :
           UpdateTolerations(obj, adjuster)
    \/ Return

SpecAdjust == InitDefault /\ [][NextAdjust]_vars

----------------------------------------------------------------------------
(* Drift analysis *)

\* C1: for every manifest that analyze_resources analyses without a kind
\* filter, the identities of correct are those of expected /\ (installed -
\* conflicting), the identities of extra those of labelled - expected, and the
\* identities of missing those of expected - (installed - conflicting)
C1_SetFormulas ==
    (op.name = "analyze_resources" /\ raised.type = "None" /\ op.resources = <<>>) =>
        \A i \in DOMAIN ret :
            LET a == ret[i]
                m == a.manifest
                ids(S) == {uniq(o) : o \in S}
                expected == ids(Range(resources(m)))
                installed == ids(installed_resources(m, cluster, op.faults.get).value)
                labelled == ids(labelled_resources(m, cluster, op.orders, op.faults.list,
                                                   op.faults.err).value)
                conflicting == ids(a.conflicting)
            IN  (op.manifests = <<>> \/ Chars[m] \in Range(op.manifests)) =>
                    /\ ids(a.correct) = expected \cap (installed \ conflicting)
                    /\ ids(a.extra) = labelled \ expected
                    /\ ids(a.missing) = expected \ (installed \ conflicting)

\* an unfiltered analysis finds resources of all four classes in one manifest
C1_Witness ==
    /\ op.name = "analyze_resources" /\ raised.type = "None" /\ op.resources = <<>>
    /\ \E i \in DOMAIN ret :
           /\ ret[i].correct # {}
           /\ ret[i].extra # {}
           /\ ret[i].missing # {}
           /\ ret[i].conflicting # {}

\* C2, as stated: in every analysis the four sets conflicting, correct, extra
\* and missing are pairwise disjoint by identity
C2_PairwiseDisjoint ==
    (op.name = "analyze_resources" /\ raised.type = "None") =>
        \A i \in DOMAIN ret :
            LET a == ret[i]
                ids(S) == {uniq(o) : o \in S}
                sets == <<ids(a.conflicting), ids(a.correct), ids(a.extra), ids(a.missing)>>
            IN  \A j, k \in 1..4 : j < k => sets[j] \cap sets[k] = {}

\* C2, amended: correct, extra and missing are pairwise disjoint by identity
\* and conflicting is disjoint from correct and from extra, while conflicting
\* lies within missing
C2_DisjointButConflictingInMissing ==
    (op.name = "analyze_resources" /\ raised.type = "None") =>
        \A i \in DOMAIN ret :
            LET a == ret[i]
                ids(S) == {uniq(o) : o \in S}
            IN  /\ ids(a.correct) \cap ids(a.extra) = {}
                /\ ids(a.correct) \cap ids(a.missing) = {}
                /\ ids(a.extra) \cap ids(a.missing) = {}
                /\ ids(a.conflicting) \cap ids(a.correct) = {}
                /\ ids(a.conflicting) \cap ids(a.extra) = {}
                /\ ids(a.conflicting) \subseteq ids(a.missing)

\* an analysis with a conflicting resource next to a correct and an extra one
C2_Witness ==
    /\ op.name = "analyze_resources" /\ raised.type = "None"
    /\ \E i \in DOMAIN ret :
           /\ ret[i].conflicting # {}
           /\ ret[i].correct # {}
           /\ ret[i].extra # {}
           /\ \A o \in ret[i].conflicting : In(o, ret[i].missing)

\* C3: every conflicting resource of an analysis is also in its missing set
\* and not in its correct set; an expected resource of an analysed manifest
\* that is not found (it is not live, or its get fails) and passes the kind
\* filter is in missing and in no other set
C3_ConflictingIsMissing ==
    (op.name = "analyze_resources" /\ raised.type = "None") =>
        \A i \in DOMAIN ret :
            LET a == ret[i]
                m == a.manifest
                expected == resources(m)
                passes(e) == op.resources = <<>> \/ Chars[e.kind] \in Range(op.resources)
                found(e) == /\ Live(cluster, e.kind, e.name, e.namespace) # {}
                            /\ <<m, uniq(e)>> \notin op.faults.get
            IN  /\ \A r \in a.conflicting : In(r, a.missing) /\ ~In(r, a.correct)
                /\ (op.manifests = <<>> \/ Chars[m] \in Range(op.manifests)) =>
                       \A j \in DOMAIN expected :
                           (passes(expected[j]) /\ ~found(expected[j])) =>
                               /\ In(expected[j], a.missing)
                               /\ ~In(expected[j], a.conflicting)
                               /\ ~In(expected[j], a.correct)
                               /\ ~In(expected[j], a.extra)

\* an analysis with a conflicting resource, one that is not live, and one
\* whose get fails
C3_Witness ==
    /\ op.name = "analyze_resources" /\ raised.type = "None"
    /\ \E i \in DOMAIN ret :
           /\ ret[i].conflicting # {}
           /\ \E e \in ret[i].missing : Live(cluster, e.kind, e.name, e.namespace) = {}
           /\ \E e \in ret[i].missing :
                  /\ <<ret[i].manifest, uniq(e)>> \in op.faults.get
                  /\ Live(cluster, e.kind, e.name, e.namespace) # {}

\* C4, as stated: an installed resource is conflicting exactly when its
\* application label or its manifest label differs from the application name
\* and manifest name of the reconciler, whatever the manipulations
C4_DiffersFromIdentity ==
    (op.name = "analyze_resources" /\ raised.type = "None" /\ op.resources = <<>>) =>
        \A i \in DOMAIN ret :
            LET a == ret[i]
                m == a.manifest
                installed == installed_resources(m, cluster, op.faults.get).value
            IN  (op.manifests = <<>> \/ Chars[m] \in Range(op.manifests)) =>
                    \A o \in installed :
                        In(o, a.conflicting) <=>
                            \/ o.labels[APP_LABEL] # <<AppName>>
                            \/ o.labels[MANIFEST_LABEL] # <<m>>

\* C4, amended: an installed resource is conflicting exactly when its
\* application label or its manifest label differs from that label of the
\* expected resource of its identity, and those are the application name and
\* the manifest name when ManifestLabel is among the manipulations
C4_DiffersFromExpected ==
    (op.name = "analyze_resources" /\ raised.type = "None" /\ op.resources = <<>>) =>
        \A i \in DOMAIN ret :
            LET a == ret[i]
                m == a.manifest
                installed == installed_resources(m, cluster, op.faults.get).value
                expected == resources(m)
                labelling == \E j \in DOMAIN manips[m] : manips[m][j].type = "ManifestLabel"
                own(key) == IF key = APP_LABEL THEN <<AppName>> ELSE <<m>>
                declared(o, key) ==
                    IF labelling THEN own(key)
                    ELSE (CHOOSE e \in Range(expected) : uniq(e) = uniq(o)).labels[key]
            IN  (op.manifests = <<>> \/ Chars[m] \in Range(op.manifests)) =>
                    \A o \in installed :
                        In(o, a.conflicting) <=>
                            \/ o.labels[APP_LABEL] # declared(o, APP_LABEL)
                            \/ o.labels[MANIFEST_LABEL] # declared(o, MANIFEST_LABEL)

\* a manifest built with ManifestLabel finds a resource of another manifest
\* of its application and one of another application conflicting, and a
\* manifest built without it finds an unlabelled resource not conflicting
C4_Witness ==
    /\ op.name = "analyze_resources" /\ raised.type = "None" /\ op.resources = <<>>
    /\ \E i \in DOMAIN ret :
           /\ \E o \in cluster :
                  /\ In(o, ret[i].conflicting)
                  /\ o.labels[APP_LABEL] = <<AppName>>
                  /\ o.labels[MANIFEST_LABEL] # <<ret[i].manifest>>
           /\ \E o \in cluster :
                  /\ In(o, ret[i].conflicting)
                  /\ o.labels[APP_LABEL] = <<OtherApp>>
                  /\ o.labels[MANIFEST_LABEL] = <<ret[i].manifest>>
           /\ \E o \in ret[i].correct : o.labels[VERSION_LABEL] # NoLabel

\* C5, as stated: a live resource that carries the labels of the reconciler
\* and is not among its expected resources is in extra after
\* analyze_resources and is gone after delete_manifests, whatever its kind
\* and namespace
C5_NoLongerExpectedIsExtra ==
    LET own(o, m) == o.labels[APP_LABEL] = <<AppName>> /\ o.labels[MANIFEST_LABEL] = <<m>>
    IN  /\ (op.name = "analyze_resources" /\ raised.type = "None" /\ op.resources = <<>>) =>
               \A i \in DOMAIN ret :
                   (op.manifests = <<>> \/ Chars[ret[i].manifest] \in Range(op.manifests)) =>
                       \A o \in cluster :
                           (own(o, ret[i].manifest) /\ ~In(o, Range(resources(ret[i].manifest))))
                               => In(o, ret[i].extra)
        /\ (op.name = "delete_manifests" /\ raised.type = "None" /\ op.fault = NoFault) =>
               \A o \in before :
                   (own(o, op.m) /\ ~In(o, Range(resources(op.m)))) => o \notin cluster

\* C10, as stated: analyze_resources and delete_manifests complete without
\* an exception when a list call of labelled_resources fails
C10_ListFailureSwallowed ==
    (op.name \in {"analyze_resources", "delete_manifests"} /\ op.faults.list # {}) =>
        raised.type = "None"

----------------------------------------------------------------------------
(* Apply, delete and the reads *)

\* C6: apply_resources issues one forced apply per resource, in the order
\* given; when the k-th apply fails it raises ManifestClientError with that
\* failure as its cause, no later resource is attempted, and the resources
\* before the k-th are live with what was applied, while every other resource
\* is as it was
C6_ApplyStopsAtFailure ==
    op.name = "apply_resources" =>
        LET batch == op.batch
            k == op.fault.at
            attempted == IF k = 0 THEN Len(batch) ELSE k
            applied == IF k = 0 THEN Len(batch) ELSE k - 1
            ids == {uniq(batch[i]) : i \in 1..applied}
        IN  /\ calls = [i \in 1..attempted |->
                           [verb |-> "apply", kind |-> batch[i].kind, name |-> batch[i].name,
                            namespace |-> batch[i].namespace, opts |-> {"force"}]]
            /\ raised = IF k = 0 THEN [type |-> "None"]
                        ELSE [type |-> "ManifestClientError", cause |-> op.fault.err]
            /\ \A i \in 1..applied :
                   \E o \in cluster :
                       /\ uniq(o) = uniq(batch[i])
                       /\ \A key \in LabelKeys :
                              batch[i].labels[key] # NoLabel => o.labels[key] = batch[i].labels[key]
            /\ {o \in cluster : uniq(o) \notin ids} = {o \in before : uniq(o) \notin ids}

\* the second of three applies fails: the first resource is created, the
\* third is not
C6_Witness ==
    /\ op.name = "apply_resources"
    /\ Len(op.batch) = 3
    /\ op.fault.at = 2
    /\ raised.type = "ManifestClientError"
    /\ Live(before, op.batch[1].kind, op.batch[1].name, op.batch[1].namespace) = {}
    /\ Live(cluster, op.batch[1].kind, op.batch[1].name, op.batch[1].namespace) # {}
    /\ Live(cluster, op.batch[3].kind, op.batch[3].name, op.batch[3].namespace) = {}

\* C7: delete_resources ignores the error of a delete, with a warning,
\* exactly when ignore_not_found is set and its message contains "not found"
\* in any case, or ignore_unauthorized is set and its message contains
\* "(unauthorized)" in any case; any other error is raised at once as
\* ManifestClientError with the error as its cause, and no later resource is
\* attempted
C7_IgnoredOrRaised ==
    op.name = "delete_resources" =>
        LET kw == op.kw
            n == Len(op.batch)
            not_found == {NotFound,
                          ApiErrorNoMessage(<<"4", "0", "4", " ", "n", "o", "t", " ",
                                              "f", "o", "u", "n", "d">>)}
            unauthorized == {Unauthorized}
            should(ex) == \/ kw.ignore_not_found /\ ex \in not_found
                          \/ kw.ignore_unauthorized /\ ex \in unauthorized
            error(i) == IF op.fault.at = i THEN op.fault.err ELSE NotFound
            entries == Range(ret)
            attempted == {i \in 1..n : <<"info", "Deleting", i>> \in entries}
            ignored == {i \in 1..n : <<"warning", "Ignored", i>> \in entries}
            failed == {i \in 1..n : <<"exception", "Failed", i>> \in entries}
            certain(i) == op.fault.at = i /\ (kw.ignore_labels \/ op.fault.stage = "list")
        IN  /\ \A i \in ignored : should(error(i))
            /\ \A i \in failed :
                   /\ ~should(error(i))
                   /\ raised = [type |-> "ManifestClientError", cause |-> error(i)]
                   /\ attempted = 1..i
                   /\ calls[Len(calls)].name = op.batch[i].name
                   /\ calls[Len(calls)].kind = op.batch[i].kind
            /\ raised.type # "None" <=> failed # {}
            /\ raised.type = "None" => attempted = 1..n
            /\ ignored \cap failed = {}
            /\ \A i \in attempted : certain(i) => i \in ignored \cup failed

\* one delete fails with "Not Found" and is ignored, the next fails with
\* another error and is raised, and a third resource is left alone
C7_Witness ==
    /\ op.name = "delete_resources"
    /\ Len(op.batch) = 3
    /\ <<"warning", "Ignored", 1>> \in Range(ret)
    /\ <<"exception", "Failed", 2>> \in Range(ret)
    /\ raised.type = "ManifestClientError"
    /\ Live(cluster, op.batch[3].kind, op.batch[3].name, op.batch[3].namespace) # {}

\* C8: without ignore_labels, delete_resources deletes only live resources
\* that carry the application and manifest labels of the reconciler; with
\* ignore_labels, every resource it names is gone when no delete fails;
\* either way it deletes nothing but what it was asked to
C8_LabelsGuardDelete ==
    op.name = "delete_resources" =>
        LET kw == op.kw
            namespace(obj) == IF obj.namespace # None THEN obj.namespace ELSE kw.namespace
            named == {<<op.batch[i].kind, namespace(op.batch[i]), op.batch[i].name>> :
                         i \in DOMAIN op.batch}
        IN  /\ cluster \subseteq before
            /\ \A o \in before \ cluster : uniq(o) \in named
            /\ ~kw.ignore_labels =>
                   \A o \in before \ cluster :
                       /\ o.labels[APP_LABEL] = <<AppName>>
                       /\ o.labels[MANIFEST_LABEL] = <<op.m>>
            /\ (kw.ignore_labels /\ op.fault = NoFault /\ raised.type = "None"
                    /\ \A i \in DOMAIN ret : ret[i][2] # "Ignored") =>
                   \A o \in cluster : uniq(o) \notin named

\* without ignore_labels, a labelled resource is deleted and a resource of
\* another owner, named in the same call, stays
C8_Witness ==
    /\ op.name = "delete_resources"
    /\ ~op.kw.ignore_labels
    /\ raised.type = "None"
    /\ before \ cluster # {}
    /\ \E i \in DOMAIN op.batch :
           \E o \in cluster :
               /\ uniq(o) = uniq(op.batch[i])
               /\ o.labels[APP_LABEL] # <<AppName>>

\* C9: installed_resources gets every expected resource, in order, and
\* raises nothing; it returns the live resources whose get succeeded; and
\* installed_resources, status and unready report nothing but live resources
\* whose get succeeded
C9_FailedGetsAreOmitted ==
    LET got(m) == {o \in cluster : /\ \E e \in Range(resources(m)) : uniq(e) = uniq(o)
                                   /\ <<m, uniq(o)>> \notin op.getFail}
    IN  /\ op.name = "installed_resources" =>
               LET expected == resources(op.m)
               IN  /\ raised.type = "None"
                   /\ calls = [i \in DOMAIN expected |->
                                  [verb |-> "get", kind |-> expected[i].kind,
                                   name |-> expected[i].name,
                                   namespace |-> expected[i].namespace, opts |-> {}]]
                   /\ ret = got(op.m)
        /\ op.name = "status" => raised.type = "None" /\ ret \subseteq got(op.m)
        /\ op.name = "unready" =>
               /\ raised.type = "None"
               /\ \A i \in DOMAIN ret :
                      \E m \in ManifestNames :
                          \E o \in got(m) :
                              \E j \in DOMAIN o.conds : ret[i] = Line(m, o, o.conds[j])

\* the first get fails, the second resource is not there, the third is found
C9_Witness ==
    /\ op.name = "installed_resources"
    /\ Len(calls) = 3
    /\ <<op.m, uniq(resources(op.m)[1])>> \in op.getFail
    /\ Live(cluster, resources(op.m)[1].kind, resources(op.m)[1].name,
            resources(op.m)[1].namespace) # {}
    /\ Live(cluster, resources(op.m)[2].kind, resources(op.m)[2].name,
            resources(op.m)[2].namespace) = {}
    /\ \E o \in ret : uniq(o) = uniq(resources(op.m)[3])

----------------------------------------------------------------------------
(* Conflict detection and remediation *)

\* C11: conflicting_resources raises ManifestClientError and returns nothing
\* exactly when the installed set it is given holds a resource whose identity
\* is that of no expected resource; otherwise it raises nothing and returns
\* expected resources only
C11_UnexpectedInstalledRaises ==
    op.name = "conflicting_resources" =>
        LET expected == {uniq(e) : e \in Range(resources(op.m))}
            unexpected == {o \in op.installed : uniq(o) \notin expected}
        IN  /\ unexpected # {} => raised.type = "ManifestClientError" /\ ret = {}
            /\ unexpected = {} =>
                   /\ raised.type = "None"
                   /\ \A r \in ret : uniq(r) \in expected

\* the installed set holds an expected resource next to one the manifest does
\* not declare, and the call raises
C11_Witness ==
    /\ op.name = "conflicting_resources"
    /\ raised.type = "ManifestClientError"
    /\ \E o \in op.installed : In(o, Range(resources(op.m)))
    /\ \E o \in op.installed : ~In(o, Range(resources(op.m)))

\* C12: a remediation that completes has analysed twice (every expected
\* resource of every analysed manifest is read twice) and wrote in between
\* only what the analysis before told: scrub_resources deleted, by label and
\* name, exactly the extra resources of each analysed manifest and nothing
\* else, apply_missing_resources applied exactly the missing resources of each
\* analysed manifest and nothing else, and a manifest with an empty set caused
\* no write; what is reported afterwards is the state after the writes
C12_RemediationIsTwoPhase ==
    op.name \in {"scrub_resources", "apply_missing_resources"} =>
        LET analysedM == {m \in ManifestNames :
                             op.manifests = <<>> \/ Chars[m] \in Range(op.manifests)}
            passes(o) == op.resources = <<>> \/ Chars[o.kind] \in Range(op.resources)
            expected(m) == Range(resources(m))
            own(o, m) == o.labels[APP_LABEL] = <<AppName>> /\ o.labels[MANIFEST_LABEL] = <<m>>
            extraIn(cl, m) ==
                {o \in cl : /\ own(o, m)
                            /\ passes(o)
                            /\ \E e \in expected(m) : e.namespace = o.namespace /\ e.kind = o.kind
                            /\ \A e \in expected(m) : uniq(e) # uniq(o)}
            settled(m, e) ==
                /\ <<m, uniq(e)>> \notin op.faults[1].get
                /\ \E o \in before : /\ uniq(o) = uniq(e)
                                      /\ o.labels[APP_LABEL] = e.labels[APP_LABEL]
                                      /\ o.labels[MANIFEST_LABEL] = e.labels[MANIFEST_LABEL]
            missingOf(m) == {e \in expected(m) : passes(e) /\ ~settled(m, e)}
            extras == UNION {extraIn(before, m) : m \in analysedM}
            lacking == UNION {{<<m, uniq(e)>> : e \in missingOf(m)} : m \in analysedM}
            reads == UNION {{m} \X DOMAIN resources(m) : m \in analysedM}
            gets == SelectSeq(calls, LAMBDA c : c.verb = "get")
            scoped == SelectSeq(calls, LAMBDA c : c.verb = "list" /\ "fields" \in c.opts)
            deletes == SelectSeq(calls, LAMBDA c : c.verb = "delete")
            applies == SelectSeq(calls, LAMBDA c : c.verb = "apply")
            ids(cs) == {<<cs[i].kind, cs[i].namespace, cs[i].name>> : i \in DOMAIN cs}
            acted == raised.type = "None" \/ op.faults[2].list # {}
            scrub == op.name = "scrub_resources"
        IN  /\ raised.type = "None" => Len(gets) = 2 * Cardinality(reads)
            /\ raised.type # "None" => Len(gets) < 2 * Cardinality(reads)
            /\ scrub => /\ applies = <<>>
                        /\ cluster \subseteq before
                        /\ before \ cluster \subseteq extras
                        /\ ids(deletes) \subseteq {uniq(o) : o \in extras}
                        /\ ids(scoped) \subseteq {uniq(o) : o \in extras}
            /\ (scrub /\ acted) =>
                   /\ cluster = before \ extras
                   /\ ids(deletes) = {uniq(o) : o \in extras}
                   /\ Len(deletes) = Cardinality(extras)
                   /\ Len(scoped) = Cardinality(extras)
            /\ ~scrub => /\ deletes = <<>>
                         /\ scoped = <<>>
                         /\ ids(applies) \subseteq {p[2] : p \in lacking}
                         /\ {o \in cluster : uniq(o) \notin ids(applies)}
                                = {o \in before : uniq(o) \notin ids(applies)}
            /\ (~scrub /\ acted) =>
                   /\ ids(applies) = {p[2] : p \in lacking}
                   /\ Len(applies) = Cardinality(lacking)
                   /\ \A p \in lacking : \E o \in cluster : uniq(o) = p[2]
            /\ raised.type = "None" =>
                   \A i \in DOMAIN ret :
                       ret[i].manifest \in analysedM =>
                           {uniq(o) : o \in ret[i].extra}
                               = {uniq(o) : o \in extraIn(cluster, ret[i].manifest)}

\* scrub_resources analysed two manifests: one had an extra resource, which
\* is gone, the other had none and a resource of its own is untouched
C12_Witness ==
    /\ op.name = "scrub_resources"
    /\ raised.type = "None"
    /\ op.manifests = <<>>
    /\ Cardinality(before \ cluster) = 1
    /\ \E o \in before \ cluster : o.labels[MANIFEST_LABEL] = <<"alpha">>
    /\ \E o \in cluster : o.labels[MANIFEST_LABEL] = <<"beta">>
    /\ Len(SelectSeq(calls, LAMBDA c : c.verb = "delete")) = 1

----------------------------------------------------------------------------
(* Resolving the resources of a release *)

\* C13, as stated: resources lists the non-null results of the Addition
\* manipulations first, in the order of the manipulation list, then the
\* surviving static resources in the order of the sorted file names and of
\* the documents of each file, each identity once; apply_manifests applies
\* them in this order
C13_AdditionsThenStatics ==
    (op.name \in {"resources", "apply_manifests"}
        /\ raised.type \notin {"IndexError", "ValueError"}) =>
        LET m == op.m
            ms == manips[m]
            release == IF config[m].release # "" THEN config[m].release
                       ELSE IF files[m].version # "" THEN files[m].version
                       ELSE IF /\ "v2" \in DOMAIN files[m].manifests
                               /\ DOMAIN files[m].manifests["v2"] \cap {"f1", "f2", "f3"} # {}
                       THEN "v2" ELSE "v1"
            dir == IF release \in DOMAIN files[m].manifests
                   THEN files[m].manifests[release] ELSE <<>>
            names == SelectSeq(<<"f1", "f2", "f3">>, LAMBDA f : f \in DOMAIN dir)
            statics == Flatten([i \in DOMAIN names |-> _flatten(dir[names[i]])])
            targeted(r) == \E i \in DOMAIN ms : /\ ms[i].type = "SubtractEq"
                                                /\ uniq(ms[i].to_compare) = uniq(r)
            surviving == SelectSeq(statics, LAMBDA r : ~targeted(r))
            results(manipulate) ==
                IF manipulate.type = "CreateNamespace"
                THEN <<[kind |-> "Namespace", namespace |-> None,
                        name |-> manipulate.namespace]>>
                ELSE IF manipulate.type = "Addition"
                THEN SelectSeq(manipulate.yields, LAMBDA add : "scalar" \notin DOMAIN add)
                ELSE <<>>
            all == Flatten([i \in DOMAIN ms |-> results(ms[i])]) \o surviving
            first == {i \in DOMAIN all : \A j \in 1..(i - 1) : uniq(all[j]) # uniq(all[i])}
            nth(k) == CHOOSE i \in first : Cardinality({j \in first : j <= i}) = k
            expected == [k \in 1..Cardinality(first) |-> uniq(all[nth(k)])]
        IN  /\ raised.type = "None"
            /\ op.name = "resources" => [i \in DOMAIN ret |-> uniq(ret[i])] = expected
            /\ op.name = "apply_manifests" =>
                   [i \in DOMAIN calls |-> <<calls[i].verb, calls[i].kind, calls[i].namespace,
                                             calls[i].name>>]
                       = [k \in DOMAIN expected |->
                             <<"apply", expected[k][1], expected[k][2], expected[k][3]>>]

\* C14: of the resources resolved from the additions and the files, a static
\* resource is absent from the result exactly when a Subtraction of the list
\* is true for it (SubtractEq: same kind, namespace and name) or an earlier
\* resource has its identity; every identity an Addition produced is in the
\* result with the content the Addition gave it, subtracted or not
C14_SubtractionsDropStaticsOnly ==
    (op.name = "resources" /\ raised = NoError) =>
        LET m == op.m
            added == additions(manips[m])
            all == added \o loaded_statics(m, current_release(m))
            token(rsc) == <<uniq(rsc), rsc.labels[OTHER_LABEL]>>
            targeted(rsc) ==
                \E i \in DOMAIN manips[m] :
                    /\ manips[m][i].type = "SubtractEq"
                    /\ manips[m][i].to_compare.kind = rsc.kind
                    /\ manips[m][i].to_compare.namespace = rsc.namespace
                    /\ manips[m][i].to_compare.name = rsc.name
            earlier(p) == \E q \in 1..(p - 1) : uniq(all[q]) = uniq(all[p])
            kept == {p \in DOMAIN all :
                        /\ p > Len(added) => ~targeted(all[p])
                        /\ ~earlier(p)}
        IN  /\ {token(ret[i]) : i \in DOMAIN ret} = {token(all[p]) : p \in kept}
            /\ Len(ret) = Cardinality(kept)
            /\ \A p \in 1..Len(added) :
                   \E i \in DOMAIN ret :
                       /\ uniq(ret[i]) = uniq(added[p])
                       /\ \E q \in 1..Len(added) : token(ret[i]) = token(added[q])

\* C14 witness: resources was resolved where a Subtraction is true for a
\* static resource and for the result of an Addition, and another static
\* resource repeats an earlier identity
C14_Witness ==
    /\ op.name = "resources" /\ raised = NoError
    /\ LET m == op.m
           added == additions(manips[m])
           statics == loaded_statics(m, current_release(m))
           targeted(rsc) == \E i \in DOMAIN manips[m] :
                               /\ manips[m][i].type = "SubtractEq"
                               /\ uniq(manips[m][i].to_compare) = uniq(rsc)
       IN  /\ \E p \in DOMAIN statics : targeted(statics[p])
           /\ \E p \in DOMAIN added :
                  /\ targeted(added[p])
                  /\ \E i \in DOMAIN ret : uniq(ret[i]) = uniq(added[p])
           /\ \E p, q \in DOMAIN statics :
                  /\ p < q /\ uniq(statics[p]) = uniq(statics[q])
                  /\ ~targeted(statics[p])
                  /\ statics[p].labels[OTHER_LABEL] # statics[q].labels[OTHER_LABEL]

\* C15: the resolved resources never hold two resources of one identity; two
\* resources are equal, and one is found in a set holding the other, exactly
\* when kind, namespace and name are equal; of the resources of one identity
\* the first of additions, then statics, is the one resolved
C15_FirstOfEachIdentity ==
    (op.name = "resources" /\ raised = NoError) =>
        LET m == op.m
            all == additions(manips[m])
                       \o subtracted(loaded_statics(m, current_release(m)), manips[m])
            same(a, b) == a.kind = b.kind /\ a.namespace = b.namespace /\ a.name = b.name
            first(rsc) == all[Min({p \in DOMAIN all : same(all[p], rsc)})]
        IN  /\ \A i, j \in DOMAIN ret : same(ret[i], ret[j]) => i = j
            /\ \A p, q \in DOMAIN all :
                   /\ Eq(all[p], all[q]) <=> same(all[p], all[q])
                   /\ In(all[p], {all[q]}) <=> same(all[p], all[q])
            /\ \A p \in DOMAIN all : \E i \in DOMAIN ret : same(ret[i], all[p])
            /\ \A i \in DOMAIN ret :
                   /\ \E p \in DOMAIN all : same(all[p], ret[i])
                   /\ ret[i].labels[OTHER_LABEL] = first(ret[i]).labels[OTHER_LABEL]

\* C15 witness: resources was resolved from an added and a static resource
\* of one identity and from two static resources of another, each pair
\* differing in content
C15_Witness ==
    /\ op.name = "resources" /\ raised = NoError
    /\ LET m == op.m
           added == additions(manips[m])
           statics == subtracted(loaded_statics(m, current_release(m)), manips[m])
       IN  /\ \E p \in DOMAIN added, q \in DOMAIN statics :
                  /\ uniq(added[p]) = uniq(statics[q])
                  /\ added[p].labels # statics[q].labels
           /\ \E p, q \in DOMAIN statics :
                  /\ p < q /\ uniq(statics[p]) = uniq(statics[q])
                  /\ statics[p].labels # statics[q].labels
                  /\ \A a \in DOMAIN added : uniq(added[a]) # uniq(statics[p])

----------------------------------------------------------------------------
(* Releases *)

\* C17: current_release is the configured release when that is not empty,
\* else the content of the version file when that is not empty, else the
\* highest release, and only in this last case does it fail when the charm
\* ships no release; a chosen release without a directory resolves to no
\* static resource and no failure
C17_ReleasePrecedence ==
    LET m == IF op.name = "idle" THEN "alpha" ELSE op.m
        rank == ("v1" :> 1) @@ ("v1.1.2" :> 2) @@ ("v1.1.9" :> 3) @@ ("v1.1.10" :> 4)
                    @@ ("v2" :> 5) @@ ("v10" :> 6)
        shipped == {r \in DOMAIN files[m].manifests :
                       DOMAIN files[m].manifests[r] \cap {"f1", "f2", "f3"} # {}}
        latest == CHOOSE r \in shipped : \A q \in shipped : rank[q] <= rank[r]
        chosen == IF config[m].release # "" THEN config[m].release
                  ELSE IF files[m].version # "" THEN files[m].version
                  ELSE latest
        fails == config[m].release = "" /\ files[m].version = "" /\ shipped = {}
    IN  /\ op.name = "current_release" =>
               IF fails THEN raised = IndexError
               ELSE raised = NoError /\ ret = chosen
        /\ op.name = "resources" =>
               IF fails THEN raised = IndexError
               ELSE /\ raised = NoError
                    /\ chosen \notin shipped => ret = <<>>
                    /\ \A i \in DOMAIN ret :
                           ret[i].labels[VERSION_LABEL] = <<m, "-", chosen>>

\* C17 witness: current_release returned a configured release that the charm
\* ships no directory for, although its version file names another release
\* and the highest release is a third
C17_Witness ==
    /\ op.name = "current_release" /\ raised = NoError
    /\ ret = "v9"
    /\ "v9" \notin DOMAIN files[op.m].manifests
    /\ files[op.m].version = "v1.1.9"
    /\ latest_release(op.m) = "v10"

\* C18: releases holds every release directory with at least one .yaml or
\* .yml file once, and no other, the higher version before the lower by the
\* numbers in the names (v10, v2, v1.1.10, v1.1.9, v1.1.2); latest_release
\* is its first element
C18_ReleasesNumericDescending ==
    LET m == IF op.name = "idle" THEN "alpha" ELSE op.m
        rank == ("v1" :> 1) @@ ("v1.1.2" :> 2) @@ ("v1.1.9" :> 3) @@ ("v1.1.10" :> 4)
                    @@ ("v2" :> 5) @@ ("v10" :> 6)
        shipped == {r \in DOMAIN files[m].manifests :
                       \E f \in DOMAIN files[m].manifests[r] : f \in {"f1", "f2", "f3"}}
    IN  /\ op.name = "releases" =>
               /\ raised = NoError
               /\ {ret[i] : i \in DOMAIN ret} = shipped
               /\ \A i, j \in DOMAIN ret : i < j => rank[ret[i]] > rank[ret[j]]
        /\ (op.name = "latest_release" /\ shipped # {}) =>
               /\ raised = NoError
               /\ ret \in shipped
               /\ \A r \in shipped : rank[r] <= rank[ret]

\* C18 witness: releases was read of a charm that ships v1.1.9 and v1.1.10,
\* one with a .yaml and a .yml file, and a directory without a declaration
C18_Witness ==
    /\ op.name = "releases"
    /\ \E i, j \in DOMAIN ret : i < j /\ ret[i] = "v1.1.10" /\ ret[j] = "v1.1.9"
    /\ \E i \in DOMAIN ret : {"f1", "f2"} \subseteq DOMAIN files[op.m].manifests[ret[i]]
    /\ \E r \in DOMAIN files[op.m].manifests : \A i \in DOMAIN ret : ret[i] # r

----------------------------------------------------------------------------
(* Loading a file *)

\* a document that is a mapping with a kind and an apiVersion
Valid(doc) ==
    /\ "scalar" \notin DOMAIN doc
    /\ "kind" \in DOMAIN doc /\ doc.kind # ""
    /\ "apiVersion" \in DOMAIN doc /\ doc.apiVersion # ""

\* the document at a path of positions, through Lists only
RECURSIVE DocAt(_, _)
DocAt(docs, path) ==
    IF Head(path) \notin DOMAIN docs THEN [absent |-> TRUE]
    ELSE LET doc == docs[Head(path)]
         IN  IF Len(path) = 1 THEN doc
             ELSE IF Valid(doc) /\ doc.kind \in {"List", "PodList"} /\ "items" \in DOMAIN doc
             THEN DocAt(doc.items, Tail(path))
             ELSE [absent |-> TRUE]

\* the order of two paths in the file
PathLess(p, q) ==
    \E k \in DOMAIN p \cap DOMAIN q : p[k] < q[k] /\ \A j \in 1..(k - 1) : p[j] = q[j]

\* C19: _safe_load returns, in the order of the file, exactly the documents
\* that are mappings with a kind and an apiVersion, whose kind does not end
\* in List, and that are documents of the file or items, at any depth, of
\* such mappings whose kind ends in List; every other document met on the
\* way is logged with a warning and nothing is raised
C19_FlattenedInDocumentOrder ==
    op.name = "_safe_load" =>
        LET file == files[op.m].manifests["v1"][op.path]
            Paths == UNION {[1..n -> 1..2] : n \in 1..(MaxDepth + 1)}
            met == {p \in Paths : "absent" \notin DOMAIN DocAt(file, p)}
            leaves == {p \in met : /\ Valid(DocAt(file, p))
                                    /\ DocAt(file, p).kind \notin {"List", "PodList"}}
            skipped == {p \in met : ~Valid(DocAt(file, p))}
            nth(k) == CHOOSE p \in leaves :
                          Cardinality({q \in leaves : PathLess(q, p)}) = k - 1
        IN  /\ raised = NoError
            /\ ret.resources = [k \in 1..Cardinality(leaves) |-> DocAt(file, nth(k))]
            /\ Len(ret.log) = Cardinality(skipped)
            /\ \A i \in DOMAIN ret.log :
                   /\ ret.log[i][1] = "warning"
                   /\ \E p \in skipped : DocAt(file, p) = ret.log[i][3]

\* C19 witness: a file was loaded that holds a resource in a List in a List
\* and a resource after it, beside two documents that are skipped
C19_Witness ==
    /\ op.name = "_safe_load"
    /\ LET file == files[op.m].manifests["v1"][op.path]
       IN  /\ Len(file) = 2
           /\ "items" \in DOMAIN file[1] /\ Len(file[1].items) = 2
           /\ Valid(file[1])
           /\ "items" \in DOMAIN file[1].items[2] /\ Valid(file[1].items[2])
           /\ Len(file[1].items[2].items) = 2
           /\ file[1].items[2].items[1] = [scalar |-> "text"]
           /\ file[1].items[2].items[2] = CmB
           /\ file[1].items[1] = [scalar |-> "text"]
           /\ file[2] = DepA
    /\ ret.resources = <<CmB, DepA>>
    /\ Len(ret.log) = 2

----------------------------------------------------------------------------
(* Labels *)

\* C20: ManifestLabel gives a resource that has metadata the application
\* label, the manifest label and the version label, manifest name and
\* current release joined by "-", and leaves every label of another key as
\* it was; called again on its outcome it leaves the label map as the first
\* call made it; a resource without metadata is left alone
C20_ManifestLabelIdempotent ==
    (op.name = "ManifestLabel" /\ raised = NoError) =>
        LET m == op.m
            release == IF config[m].release # "" THEN config[m].release
                       ELSE IF files[m].version # "" THEN files[m].version
                       ELSE IF /\ "v2" \in DOMAIN files[m].manifests
                               /\ DOMAIN files[m].manifests["v2"] \cap {"f1", "f2", "f3"} # {}
                       THEN "v2" ELSE "v1"
        IN  IF op.obj.metadata
            THEN /\ ret.labels["juju.io/application"] = <<"unit-testing">>
                 /\ ret.labels["juju.io/manifest"] = <<m>>
                 /\ ret.labels["juju.io/manifest-version"] = <<m, "-", release>>
                 /\ \A k \in DOMAIN op.obj.labels \ {"juju.io/application", "juju.io/manifest",
                                                      "juju.io/manifest-version"} :
                        ret.labels[k] = op.obj.labels[k]
                 /\ DOMAIN ret.labels = DOMAIN op.obj.labels
                 /\ [ret EXCEPT !.labels = op.obj.labels] = op.obj
            ELSE ret = op.obj

\* C20 witness: ManifestLabel was called twice on a resource that carried
\* the three labels of another owner and a label of its own
C20_Witness ==
    /\ op.name = "ManifestLabel" /\ raised = NoError
    /\ op.times = 2
    /\ op.obj.labels["pre-existing"] = <<"keep">>
    /\ op.obj.labels["juju.io/application"] = <<"other-app">>
    /\ ret.labels["pre-existing"] = <<"keep">>
    /\ ret.labels["juju.io/application"] = <<"unit-testing">>

----------------------------------------------------------------------------
(* Images and tolerations *)

\* C21, as stated: ConfigRegistry called again on its outcome, with the
\* same registry, leaves every image that has a "/" as the first call made
\* it: the registry, then the part of the declared image after its first "/"
C21_ConfigRegistryIdempotent ==
    (op.name = "ConfigRegistry" /\ raised = NoError /\ op.times = 2
        /\ "image-registry" \in DOMAIN config[op.m]
        /\ config[op.m]["image-registry"] # <<>>) =>
        \A i \in DOMAIN op.obj.images :
            (Len(op.obj.images[i]) >= 2 /\ op.obj.kind \in PodSpecKinds) =>
                ret.images[i] = config[op.m]["image-registry"]
                                    \o SubSeq(op.obj.images[i], 2, Len(op.obj.images[i]))

\* C22: with image-registry set, ConfigRegistry puts the registry in the
\* place of the part before the first "/" of the image of every container
\* and init container of a Pod, DaemonSet, Deployment, Job, ReplicaSet,
\* ReplicationController, StatefulSet or CronJob and keeps the rest of the
\* image; a container without image, a resource of another kind and, with
\* image-registry unset, every resource are left as they were
C22_RegistryReplacesFirstPart ==
    (op.name = "ConfigRegistry" /\ raised = NoError /\ op.times = 1) =>
        LET set == /\ "image-registry" \in DOMAIN config[op.m]
                   /\ config[op.m]["image-registry"] # <<>>
            rewritten == op.obj.kind \in {"Pod", "DaemonSet", "Deployment", "Job", "ReplicaSet",
                                          "ReplicationController", "StatefulSet", "CronJob"}
        IN  IF set /\ rewritten
            THEN /\ DOMAIN ret.images = DOMAIN op.obj.images
                 /\ \A i \in DOMAIN ret.images :
                        IF op.obj.images[i] = <<>> THEN ret.images[i] = <<>>
                        ELSE /\ SubSeq(ret.images[i], 1, Len(config[op.m]["image-registry"]))
                                    = config[op.m]["image-registry"]
                             /\ SubSeq(ret.images[i], Len(config[op.m]["image-registry"]) + 1,
                                       Len(ret.images[i]))
                                    = SubSeq(op.obj.images[i], 2, Len(op.obj.images[i]))
                 /\ [ret EXCEPT !.images = op.obj.images] = op.obj
            ELSE ret = op.obj

\* C22 witness: ConfigRegistry was called once, with a registry of two
\* parts, on a CronJob with a container, a container without image and an
\* init container
C22_Witness ==
    /\ op.name = "ConfigRegistry" /\ raised = NoError /\ op.times = 1
    /\ op.obj.kind = "CronJob"
    /\ op.obj.images = <<<<"docker.io", "library", "nginx">>, <<>>, <<"quay.io", "init">>>>
    /\ ret.images = <<<<"rocks", "cdk", "library", "nginx">>, <<>>, <<"rocks", "cdk", "init">>>>

\* C23, as stated: update_tolerations gives a Pod, DaemonSet, Deployment or
\* StatefulSet the tolerations the adjuster returned, without those that
\* equal an earlier one in every field, in the order of the first
\* occurrences; any other resource is returned as it was
C23_TolerationsUniqueByFields ==
    op.name = "update_tolerations" =>
        IF op.obj.kind \in {"Pod", "DaemonSet", "Deployment", "StatefulSet"}
               /\ "tolerations" \in DOMAIN op.obj
        THEN LET first == SelectSeq([i \in DOMAIN op.adjusted |-> i],
                                    LAMBDA i : \A j \in 1..(i - 1) :
                                                   op.adjusted[j] # op.adjusted[i])
             IN  /\ ret.tolerations = [k \in DOMAIN first |-> op.adjusted[first[k]]]
                 /\ [ret EXCEPT !.tolerations = op.obj.tolerations] = op.obj
        ELSE ret = op.obj

----------------------------------------------------------------------------
(* Readiness *)

\* C24: unready holds the line "<manifest>: <resource> is not <type>" of
\* exactly the conditions of the installed resources of each manifest for
\* which is_ready of that manifest is False: under the default is_ready
\* those whose status is not "True", under an overriding one not those it
\* answers None for; the lines are sorted
C24_UnreadyIsNotReady ==
    op.name = "unready" =>
        LET got(m) == {o \in cluster : /\ \E e \in Range(resources(m)) : uniq(e) = uniq(o)
                                       /\ <<m, uniq(o)>> \notin op.getFail}
            passed(m, o, cond) == m = "alpha" /\ o.kind = "Deployment" /\ cond.type = "Ignored"
            lines == {Chars[m] \o <<":", " ">> \o Str(o) \o <<" ", "i", "s", " ", "n", "o", "t", " ">>
                          \o Chars[o.conds[j].type] :
                          <<m, o, j>> \in {t \in ManifestNames \X cluster \X (1..2) :
                                             /\ t[2] \in got(t[1])
                                             /\ t[3] \in DOMAIN t[2].conds
                                             /\ t[2].conds[t[3]].status # "True"
                                             /\ ~passed(t[1], t[2], t[2].conds[t[3]])}}
        IN  /\ raised = NoError
            /\ {ret[i] : i \in DOMAIN ret} = lines
            /\ Len(ret) = Cardinality(lines)
            /\ \A i, j \in DOMAIN ret : i < j => StrLess(ret[i], ret[j])

\* C24 witness: unready was read while a Deployment of alpha, which
\* overrides is_ready, and a ConfigMap of alpha and beta both report Ready
\* False and Ignored False, and another Deployment reports Ready Unknown
C24_Witness ==
    /\ op.name = "unready" /\ op.getFail = {}
    /\ \E o \in cluster : uniq(o) = uniq(DepA) /\ Len(o.conds) = 2
                              /\ o.conds[1].status = "False"
    /\ \E o \in cluster : uniq(o) = uniq(CmB) /\ Len(o.conds) = 2
                              /\ o.conds[1].status = "False"
    /\ \E o \in cluster : uniq(o) = uniq(DepC) /\ Len(o.conds) = 1
                              /\ o.conds[1].status = "Unknown"
    /\ Len(ret) = 6
    /\ ret[1] = <<"a", "l", "p", "h", "a", ":", " ", "C", "o", "n", "f", "i", "g", "M", "a", "p",
                  "/", "n", "s", "2", "/", "b", " ", "i", "s", " ", "n", "o", "t", " ",
                  "I", "g", "n", "o", "r", "e", "d">>
    /\ ret[3] = <<"a", "l", "p", "h", "a", ":", " ", "D", "e", "p", "l", "o", "y", "m", "e", "n",
                  "t", "/", "n", "s", "1", "/", "a", " ", "i", "s", " ", "n", "o", "t", " ",
                  "R", "e", "a", "d", "y">>

----------------------------------------------------------------------------
(* Filters of the analysis *)

\* C25: with a kind filter, each of the four sets of every analysis holds
\* exactly the resources of the unfiltered set whose kind is, letter case
\* aside, one of the filter tokens; without a kind filter the four sets are
\* the unfiltered ones; and the reported results hold a key for exactly the
\* sets that are not empty
C25_KindFilterIgnoresCase ==
    (op.name = "list_resources" /\ raised.type = "None") =>
        LET unfiltered == analyze_resources(cluster, op.manifests, <<>>, op.orders,
                                            op.faults).results
            allowed(o) == \E t \in Range(op.resources) : lower(Chars[o.kind]) = lower(t)
            sets == {"conflicting", "correct", "extra", "missing"}
            key(i, k) == Chars[ret.results[i].manifest] \o <<"-">> \o Chars[k]
        IN  /\ DOMAIN ret.results = DOMAIN unfiltered
            /\ \A i \in DOMAIN ret.results, k \in sets :
                   /\ ret.results[i][k] =
                          IF op.resources = <<>> THEN unfiltered[i][k]
                          ELSE {o \in unfiltered[i][k] : allowed(o)}
                   /\ key(i, k) \in DOMAIN ret.event_result <=> ret.results[i][k] # {}
            /\ DOMAIN ret.event_result \subseteq
                   {key(i, k) : i \in DOMAIN ret.results, k \in sets}

\* a filter written in capitals keeps the Deployments of one set, drops a
\* ConfigMap of another, and the results report some keys but not all
C25_Witness ==
    /\ op.name = "list_resources" /\ raised.type = "None"
    /\ op.resources = <<Chars["DEPLOYMENT"], Chars["Service"]>>
    /\ \E i \in DOMAIN ret.results :
           /\ \E o \in ret.results[i].correct : o.kind = "Deployment"
           /\ ret.results[i].missing = {}
           /\ \E o \in analyze_resources(cluster, op.manifests, <<>>, op.orders,
                                          op.faults).results[i].missing :
                  o.kind = "ConfigMap"
           /\ Chars[ret.results[i].manifest] \o <<"-">> \o Chars["correct"]
                  \in DOMAIN ret.event_result
           /\ Chars[ret.results[i].manifest] \o <<"-">> \o Chars["missing"]
                  \notin DOMAIN ret.event_result

\* C26, as stated: a manifest is taken up by the analysis if and only if no
\* manifest filter is given or one of the filter tokens names it (a token
\* that is the name names it; a token that differs from the name in more
\* than letter case does not)
C26_NamedManifestsAreAnalysed ==
    op.name = "select" =>
        \A name \in op.keys :
            /\ (op.manifests = <<>> \/ \E t \in Range(op.manifests) : t = name)
                   => name \in ret
            /\ name \in ret
                   => (op.manifests = <<>>
                       \/ \E t \in Range(op.manifests) : lower(t) = lower(name))

\* C26, for manifests named in lower case: the analyses come one per
\* manifest in ascending order of the names; a manifest that no token of a
\* given filter names has four empty sets and no key in the reported
\* results, and the calls made are those of the analyses of the others
C26_SkippedManifestsAreEmpty ==
    (op.name = "list_resources" /\ raised.type = "None") =>
        LET named(m) == op.manifests = <<>>
                        \/ \E t \in Range(op.manifests) : lower(t) = Chars[m]
            res_filter == {lower(op.resources[i]) : i \in DOMAIN op.resources}
            reads(m) == IF named(m)
                        THEN analysis_of(m, cluster, res_filter, op.orders, op.faults).calls
                        ELSE <<>>
        IN  /\ Len(ret.results) = Cardinality(ManifestNames)
            /\ \A i, j \in DOMAIN ret.results :
                   i < j => StrLess(Chars[ret.results[i].manifest],
                                    Chars[ret.results[j].manifest])
            /\ \A i \in DOMAIN ret.results :
                   ~named(ret.results[i].manifest) =>
                       /\ ret.results[i] =
                              ResourceAnalysis(ret.results[i].manifest, {}, {}, {}, {})
                       /\ \A key \in DOMAIN ret.event_result :
                              SubSeq(key, 1, Len(Chars[ret.results[i].manifest]) + 1)
                                  # Chars[ret.results[i].manifest] \o <<"-">>
            /\ calls = reads(ret.results[1].manifest) \o reads(ret.results[2].manifest)

\* a filter names one manifest while the other has drifted
C26_Witness ==
    /\ op.name = "list_resources" /\ raised.type = "None"
    /\ op.manifests = <<Chars["BETA"]>>
    /\ calls # <<>>
    /\ \E o \in cluster : o.kind = "Deployment"
    /\ DOMAIN ret.event_result # {}

----------------------------------------------------------------------------
(* Remediation, seen in the second analysis *)

C28_SharedWitness ==
    /\ op.name = "apply_missing_resources" /\ raised.type = "None" /\ op.faults[2].get = {}
    /\ \E o \in before : Eq(o, CmB) /\ o.labels[APP_LABEL] = <<OtherApp>>
    /\ \E i \in DOMAIN ret : \E e \in ret[i].conflicting :
           /\ Eq(e, CmB)
           /\ Len(SelectSeq(calls, LAMBDA c : c.verb = "apply" /\ c.name = "b")) = 2

----------------------------------------------------------------------------
(* Deleting what is not there *)

----------------------------------------------------------------------------
(* The analysis only reads *)

\* C30: in every analysis of a manifest that is not filtered out, each
\* expected resource that passes the kind filter is, by identity, in exactly
\* one of correct and missing, the two hold nothing else, and extra holds no
\* expected resource; analyze_resources makes get and list calls only and
\* leaves the cluster as it is, also when it raises
C30_CorrectAndMissingPartitionExpected ==
    op.name = "analyze_resources" =>
        /\ cluster = before
        /\ \A j \in DOMAIN calls : calls[j].verb \in {"get", "list"}
        /\ raised.type = "None" =>
               \A i \in DOMAIN ret :
                   LET a == ret[i]
                       ids(S) == {uniq(o) : o \in S}
                       passes(o) == \/ op.resources = <<>>
                                    \/ \E t \in Range(op.resources) :
                                           lower(t) = lower(Chars[o.kind])
                       expected == {e \in Range(resources(a.manifest)) : passes(e)}
                   IN  (op.manifests = <<>> \/ Chars[a.manifest] \in Range(op.manifests)) =>
                           /\ ids(a.correct) \cup ids(a.missing) = ids(expected)
                           /\ ids(a.correct) \cap ids(a.missing) = {}
                           /\ ids(a.extra) \cap ids(Range(resources(a.manifest))) = {}

\* an analysis filtered by kind finds one expected Deployment correct and
\* another missing, and leaves out the ConfigMap the manifest declares too
C30_Witness ==
    /\ op.name = "analyze_resources" /\ raised.type = "None"
    /\ op.resources # <<>>
    /\ calls # <<>>
    /\ \E i \in DOMAIN ret :
           /\ ret[i].correct # {}
           /\ ret[i].missing # {}
           /\ \E e \in Range(resources(ret[i].manifest)) :
                  e.kind = "ConfigMap" /\ ~In(e, ret[i].correct \cup ret[i].missing)

====
